---- MODULE Spec2Model ----
(***************************************************************************)
(* GymFlow data layer: the Local Store (IndexedDB wrapper, database.js),   *)
(* the Remote Store (Firestore wrapper, firebase-config.js) and the Sync   *)
(* Adapter (db-adapter.js) that routes every call to one of them, mirrors  *)
(* cloud writes into the Local Store and reconciles local records to the   *)
(* cloud (syncToCloud).                                                    *)
(*                                                                         *)
(* Every async function is cut at its awaits: one action per stretch of    *)
(* code that runs without suspending.                                      *)
(***************************************************************************)
EXTENDS Integers, Sequences, FiniteSets

(***************************************************************************)
(* Bounds of the model.                                                    *)
(***************************************************************************)
\* number of adapter add / update / delete calls issued in one behaviour
MaxCalls == 2
\* number of syncToCloud passes started in one behaviour
MaxSyncs == 2

\* Object.values(STORES), restricted to two collections: "users" carries the
\* unique index (email), "workouts" has none.  The order is the iteration
\* order of syncToCloud.
StoreOrder == <<"users", "workouts">>

Stores == {StoreOrder[i] : i \in 1..Len(StoreOrder)}

\* the collections of the model: those syncToCloud is followed through,
\* and the exercise catalog that seedDatabase fills
AllStores == Stores \cup {"exercises"}

\* the domain field of a record (the email of a user, the name of a workout)
Vals == {1, 2}

\* Local ids are IndexedDB auto-increment numbers 1, 2, ...; Firestore
\* document ids are strings.  Document ids are modelled as the numbers from
\* CloudIdBase up, so that the two kinds never coincide and local keys sort
\* before document ids, the way IndexedDB orders numbers before strings.
CloudIdBase == 100

IsCloudId(k) == k >= CloudIdBase

\* a field that is absent (undefined) in the JavaScript object
None == 0

\* new Date().toISOString(): the timestamp a store stamps on a record it
\* creates (one instant stands for every moment of a behaviour)
Now == 1

\* the values of the setting 'currentUserId': null after a logout, a user id
\* after a login; NoSetting stands for "no such record" and for undefined
Null == 0

NoSetting == -1

SettingVals == {Null, 1}

VARIABLES
    useCloud,        \* dbConfig.useCloud
    useFirebase,     \* module variable useFirebase
    firebaseModule,  \* TRUE when firebaseModule is not null
    fbDb,            \* TRUE when firebase-config's db handle is not null
    localReady,      \* TRUE when localDB.db is not null
    local,           \* Local Store: store -> set of records
    nextId,          \* Local Store: store -> key generator (next auto id)
    remote,          \* Remote Store: collection -> set of documents
    nextCloud,       \* number of documents Remote Store has created
    localSetting,    \* Local Store settings record 'currentUserId'
    remoteSetting,   \* Remote Store settings document 'global_currentUserId'
    calls,           \* the adapter calls in flight and those that settled
                     \* since the last call was issued
    nCalls,          \* number of adapter calls issued so far
    syncs,           \* the syncToCloud passes started so far
    lastInit,        \* how the last initDatabase run ended (what it logged)
    workoutSession,  \* WorkoutsManager.workoutSession
    currentWorkout,  \* WorkoutsManager.currentWorkout (its id, None for null)
    currentExerciseIndex,  \* WorkoutsManager.currentExerciseIndex
    history,         \* Local Store: the records of the history store
    historyNext,     \* Local Store: key generator of the history store
    finishes,        \* the finishSession invocations made so far
    nSessions,       \* number of sessions started so far
    navResult,       \* what the last nextExercise / previousExercise /
                     \* skipExercise call returned
    checkins,        \* Local Store: the dates of the user's check-in records
    today,           \* the calendar day (new Date()), as a day number
    streak,          \* the last getStreak call and what it returned
    seed,            \* the seedDatabase run of this page load
    currentRoute,    \* Router.currentRoute
    nav,             \* the handleRoute invocations of this page
    hostname,        \* window.location.hostname
    isDevelopment,   \* the logger module's constant isDevelopment
    console,         \* the logger calls made on this page, oldest first,
                     \* and whether each one wrote to the console
    user,            \* state.user (the user's id, None for null)
    auth             \* what loadSettings, login and logout have done

vars == <<useCloud, useFirebase, firebaseModule, fbDb, localReady, local,
          nextId, remote, nextCloud, localSetting, remoteSetting, calls,
          nCalls, syncs, lastInit, workoutSession, currentWorkout,
          currentExerciseIndex, history, historyNext, finishes, nSessions,
          navResult, checkins, today, streak, seed, currentRoute, nav,
          hostname, isDevelopment, console, user, auth>>

modeVars == <<useCloud, useFirebase, firebaseModule, fbDb, localReady>>

storeVars == <<local, nextId, remote, nextCloud>>

settingVars == <<localSetting, remoteSetting>>

\* the state of the modules beside the data layer and the workout session
pageVars == <<currentRoute, nav, hostname, isDevelopment, console, user, auth>>

\* the data layer, the workout session, the check-ins and the seeding
coreVars == <<modeVars, storeVars, settingVars, calls, nCalls, syncs, lastInit,
              workoutSession, currentWorkout, currentExerciseIndex, history,
              historyNext, finishes, nSessions, navResult, checkins, today,
              streak, seed>>

appVars == <<checkins, today, streak, seed, pageVars>>

sessVars == <<workoutSession, currentWorkout, currentExerciseIndex, history,
              historyNext, finishes, nSessions, navResult, appVars>>

(***************************************************************************)
(* Workout execution (class WorkoutsManager): the data of a session.       *)
(***************************************************************************)
\* number of sessions started in one behaviour
MaxSessions == 1
\* number of logSet calls made on one session
MaxLogs == 2
\* number of finishSession invocations in one behaviour
MaxFinishes == 2

\* the workouts a session is started from: exercises with their target set
\* counts (a saved workout has at least one exercise and every exercise at
\* least one set)
Workouts ==
    {[id |-> 1, exercises |-> <<[sets |-> 1]>>],
     [id |-> 2, exercises |-> <<[sets |-> 2], [sets |-> 1]>>]}

\* the calls of logSet: a set number with what was typed into the reps and
\* weight fields
SetInputs ==
    {[setNumber |-> 1, reps |-> "2", weight |-> "2.5"],
     [setNumber |-> 1, reps |-> "3.5", weight |-> "2"],
     [setNumber |-> 2, reps |-> "2", weight |-> "x"]}

\* the number NaN
NaN == -1

\* a property that has not been assigned (undefined)
Undefined == -2

\* null returned where an exercise is expected
NoExercise == -1

\* parseInt(text): the integer the text starts with, NaN when there is none
parseInt(t) ==
    CASE t = "2" -> 2
      [] t = "3.5" -> 3
      [] t = "2.5" -> 2
      [] OTHER -> NaN

\* parseFloat(text), in tenths: the decimal number the text starts with
parseFloat(t) ==
    CASE t = "2" -> 20
      [] t = "3.5" -> 35
      [] t = "2.5" -> 25
      [] OTHER -> NaN

\* a * b and a + b of JavaScript numbers: NaN when an operand is NaN
Times(a, b) == IF a = NaN \/ b = NaN THEN NaN ELSE a * b

Plus(a, b) == IF a = NaN \/ b = NaN THEN NaN ELSE a + b

\* this.workoutSession = null
NoSession ==
    [live |-> FALSE, workoutId |-> None, exercises |-> <<>>,
     totalSets |-> Undefined, totalVolume |-> Undefined]

\* null returned by finishSession
NoResult == [isNull |-> TRUE, id |-> None, session |-> NoSession]

(***************************************************************************)
(* Local Store (class Database).                                           *)
(***************************************************************************)
\* the users store has a unique index on email: a write is refused when
\* another record of the store already holds the same value (a record
\* without the field has no entry in the index)
UniqueViolation(store, recs, rec) ==
    /\ store = "users"
    /\ rec.val # None
    /\ \E o \in recs : o.id # rec.id /\ o.val = rec.val

\* the key generator after a record with the given key was stored: an
\* explicit numeric key at or above the current number moves the generator
\* past it, a string key (a document id) leaves it alone
BumpKey(next, key) ==
    IF ~IsCloudId(key) /\ key >= next THEN key + 1 ELSE next

\* an add that stores with put: a record already under the key is replaced
\* instead of the request failing
LocalAddPut(store, data) ==
    IF ~localReady
    THEN [status |-> "null", key |-> None, recs |-> local[store], next |-> nextId[store]]
    ELSE LET key == IF data.id # None THEN data.id ELSE nextId[store]
             rec == [id |-> key, cloudId |-> data.cloudId, val |-> data.val,
                     createdAt |-> Now]
         IN [status |-> "ok", key |-> key,
             recs |-> {o \in local[store] : o.id # key} \cup {rec},
             next |-> BumpKey(nextId[store], key)]

\* Database.add: status "null" before init() (nothing written), "error"
\* when the request fails (key already present, unique index violated),
\* else "ok" with the key of the new record
LocalAdd(store, data) ==
    IF ~localReady
    THEN [status |-> "null", key |-> None, recs |-> local[store], next |-> nextId[store]]
    ELSE LET key == IF data.id # None THEN data.id ELSE nextId[store]
             rec == [id |-> key, cloudId |-> data.cloudId, val |-> data.val,
                     createdAt |-> Now]
         IN IF (\E o \in local[store] : o.id = key) \/ UniqueViolation(store, local[store], rec)
            THEN [status |-> "error", key |-> None, recs |-> local[store], next |-> nextId[store]]
            ELSE [status |-> "ok", key |-> key, recs |-> local[store] \cup {rec},
                  next |-> BumpKey(nextId[store], key)]

\* Database.update: store.put, a full replace keyed by data.id that creates
\* the record when the key is absent
LocalUpdate(store, data) ==
    IF ~localReady
    THEN [status |-> "null", key |-> None, recs |-> local[store], next |-> nextId[store]]
    ELSE LET key == IF data.id # None THEN data.id ELSE nextId[store]
             rec == [id |-> key, cloudId |-> data.cloudId, val |-> data.val,
                     createdAt |-> data.createdAt]
         IN IF UniqueViolation(store, local[store], rec)
            THEN [status |-> "error", key |-> None, recs |-> local[store], next |-> nextId[store]]
            ELSE [status |-> "ok", key |-> key,
                  recs |-> {o \in local[store] : o.id # key} \cup {rec},
                  next |-> BumpKey(nextId[store], key)]

\* a delete that fails when no record is stored under the key
LocalDeleteStrict(store, id) ==
    IF ~localReady
    THEN [status |-> "null", key |-> None, recs |-> local[store], next |-> nextId[store]]
    ELSE IF \A o \in local[store] : o.id # id
    THEN [status |-> "error", key |-> None, recs |-> local[store], next |-> nextId[store]]
    ELSE [status |-> "ok", key |-> None,
          recs |-> {o \in local[store] : o.id # id}, next |-> nextId[store]]

\* Database.delete: removes the record with that key, no error when absent
LocalDelete(store, id) ==
    IF ~localReady
    THEN [status |-> "null", key |-> None, recs |-> local[store], next |-> nextId[store]]
    ELSE [status |-> "ok", key |-> None,
          recs |-> {o \in local[store] : o.id # id}, next |-> nextId[store]]

\* Database.clear: removes every record of the store; the key generator
\* keeps its number
LocalClear(store) ==
    IF ~localReady
    THEN [status |-> "null", key |-> None, recs |-> local[store], next |-> nextId[store]]
    ELSE [status |-> "ok", key |-> None, recs |-> {}, next |-> nextId[store]]

\* Database.get: the record with that key, None when absent or before init()
LocalGet(store, id) ==
    IF ~localReady THEN {} ELSE {o \in local[store] : o.id = id}

\* Database.getAll
LocalGetAll(store) ==
    IF ~localReady THEN {} ELSE local[store]

\* a getByIndex that hands out the whole collection
LocalGetByIndexAll(store, value) ==
    IF ~localReady THEN {} ELSE local[store]

\* Database.getByIndex on the indexed domain field: index.getAll(value).
\* The index holds the records that have the field; a value of undefined
\* or null is no key and selects every entry of the index.
LocalGetByIndex(store, value) ==
    IF ~localReady THEN {}
    ELSE IF value = None THEN {o \in local[store] : o.val # None}
    ELSE {o \in local[store] : o.val = value}

(***************************************************************************)
(* Remote Store (firebaseDB).  Every operation throws when the Firestore   *)
(* handle is null or when the network request fails (netOk = FALSE).       *)
(***************************************************************************)
RemoteUp(netOk) == fbDb /\ netOk

\* firebaseDB.add: addDoc stores the data under a fresh document id
RemoteAdd(store, data, netOk) ==
    IF ~RemoteUp(netOk)
    THEN [status |-> "error", key |-> None, docs |-> remote[store], next |-> nextCloud]
    ELSE LET k == CloudIdBase + nextCloud
         IN [status |-> "ok", key |-> k,
             docs |-> remote[store] \cup
                 {[docId |-> k, id |-> data.id, cloudId |-> data.cloudId, val |-> data.val,
                   createdAt |-> Now]},
             next |-> nextCloud + 1]

\* firebaseDB.update: updateDoc on document String(data.id) merges the
\* fields of data into it and fails when the document does not exist
RemoteUpdate(store, data, netOk) ==
    IF ~RemoteUp(netOk) \/ ~(\E d \in remote[store] : d.docId = data.id)
    THEN [status |-> "error", key |-> None, docs |-> remote[store], next |-> nextCloud]
    ELSE LET old == CHOOSE d \in remote[store] : d.docId = data.id
             new == [docId |-> old.docId, id |-> data.id,
                     cloudId |-> IF data.cloudId # None THEN data.cloudId ELSE old.cloudId,
                     val |-> data.val,
                     createdAt |-> IF data.createdAt # None THEN data.createdAt
                                   ELSE old.createdAt]
         IN [status |-> "ok", key |-> data.id,
             docs |-> (remote[store] \ {old}) \cup {new}, next |-> nextCloud]

\* firebaseDB.delete: deleteDoc on document String(id), no error when absent
RemoteDelete(store, id, netOk) ==
    IF ~RemoteUp(netOk)
    THEN [status |-> "error", key |-> None, docs |-> remote[store], next |-> nextCloud]
    ELSE [status |-> "ok", key |-> None,
          docs |-> {d \in remote[store] : d.docId # id}, next |-> nextCloud]

\* what a remote read hands to the caller: { id: doc.id, ...doc.data() },
\* where an id field stored in the document overrides the document id
RemoteView(d) ==
    [id |-> IF d.id # None THEN d.id ELSE d.docId, cloudId |-> d.cloudId, val |-> d.val,
     createdAt |-> d.createdAt]

\* firebaseDB.get
RemoteGet(store, id) ==
    {RemoteView(d) : d \in {e \in remote[store] : e.docId = id}}

\* firebaseDB.getAll
RemoteGetAll(store) ==
    {RemoteView(d) : d \in remote[store]}

\* firebaseDB.getByIndex
RemoteGetByIndex(store, value) ==
    {RemoteView(d) : d \in {e \in remote[store] : e.val = value}}

(***************************************************************************)
(* Sync Adapter (db-adapter.js).                                           *)
(***************************************************************************)
\* getStreak has not been called
NoStreak == [zone |-> "none", day |-> 0, days |-> {}, value |-> Undefined,
             byDates |-> Undefined]

\* seedDatabase has not been called on this page
NoSeed == [pc |-> "idle", items |-> <<>>, id |-> None, n |-> 0, wasEmpty |-> FALSE]

\* this.currentRoute = null
NoRoute == "null"

\* .loaded: loadSettings has run on this page; .restored: it set state.user;
\* .cleared: the last write of currentUserId by a login or a logout was a
\* logout's null
NoAuth == [loaded |-> FALSE, restored |-> FALSE, cleared |-> FALSE]

\* const isDevelopment = hostname === 'localhost' || hostname === '127.0.0.1'
IsDevelopment(host) == host = "localhost" \/ host = "127.0.0.1"

\* the modules beside the data layer after construction
AppInit ==
    /\ checkins = {}
    /\ today = 1
    /\ streak = NoStreak
    /\ seed = NoSeed
    /\ currentRoute = NoRoute
    /\ nav = <<>>
    /\ hostname = "localhost"
    /\ isDevelopment = IsDevelopment(hostname)
    /\ console = <<>>
    /\ user = None
    /\ auth = NoAuth

\* a getDB() that tests only whether the Firebase module was loaded
getDBLoaded == IF firebaseModule THEN "remote" ELSE "local"

\* getDB(): which backend serves the call that starts now
getDB == IF useFirebase /\ firebaseModule THEN "remote" ELSE "local"

Init ==
    /\ useCloud = TRUE
    /\ useFirebase = FALSE
    /\ firebaseModule = FALSE
    /\ fbDb = FALSE
    /\ localReady = FALSE
    /\ local = [s \in AllStores |-> {}]
    /\ nextId = [s \in AllStores |-> 1]
    /\ remote = [s \in AllStores |-> {}]
    /\ nextCloud = 0
    /\ localSetting = NoSetting
    /\ remoteSetting = NoSetting
    /\ calls = <<>>
    /\ nCalls = 0
    /\ syncs = <<>>
    /\ lastInit = "none"
    /\ workoutSession = NoSession
    /\ currentWorkout = None
    /\ currentExerciseIndex = 0
    /\ history = {}
    /\ historyNext = 1
    /\ finishes = <<>>
    /\ nSessions = 0
    /\ navResult = NoExercise
    /\ AppInit

\* the outcomes of the Remote Store handshake: the dynamic import of
\* firebase-config.js fails; initFirebase catches an error of its own and
\* returns false, before or after the Firestore handle was assigned; or
\* initFirebase returns true
Handshakes == {"ok", "importFail", "initFailEarly", "initFailLate"}

\* what the handshake logs: "Firebase cloud sync enabled" after
\* "Firebase initialized", "Firebase not available" when the import threw,
\* "Firebase initialization error" when initFirebase caught an error
HandshakeLog(hs) ==
    CASE hs = "ok" -> "ok"
      [] hs = "importFail" -> "importFail"
      [] OTHER -> "initFail"

\* initDatabase(): localDB.init(), then the handshake when dbConfig.useCloud.
\* cloud is the value of dbConfig.useCloud the run sees.
initDatabase(cloud, localOk, hs) ==
    /\ useCloud' = cloud
    /\ IF ~localOk
       THEN \* localDB.init() rejects and initDatabase throws
            /\ lastInit' = "threw"
            /\ UNCHANGED <<useFirebase, firebaseModule, fbDb, localReady>>
       ELSE /\ localReady' = TRUE
            /\ IF cloud
               THEN \* the import throws into the catch block, which clears
                    \* useFirebase; a false returned by initFirebase is ignored
                    /\ firebaseModule' = (firebaseModule \/ hs # "importFail")
                    /\ fbDb' = (fbDb \/ hs \in {"ok", "initFailLate"})
                    /\ useFirebase' = (hs # "importFail")
                    /\ lastInit' = HandshakeLog(hs)
               ELSE /\ useFirebase' = FALSE
                    /\ lastInit' = "local"
                    /\ UNCHANGED <<firebaseModule, fbDb>>

\* database.init()
DatabaseInit(localOk, hs) ==
    /\ initDatabase(useCloud, localOk, hs)
    /\ UNCHANGED <<storeVars, settingVars, calls, nCalls, syncs, sessVars>>

\* database.enableCloud()
EnableCloud(localOk, hs) ==
    /\ initDatabase(TRUE, localOk, hs)
    /\ UNCHANGED <<storeVars, settingVars, calls, nCalls, syncs, sessVars>>

\* database.disableCloud()
DisableCloud ==
    /\ useCloud' = FALSE
    /\ useFirebase' = FALSE
    /\ UNCHANGED <<firebaseModule, fbDb, localReady, storeVars, settingVars,
                   calls, nCalls, syncs, lastInit, sessVars>>

(***************************************************************************)
(* database.add / update / delete.  Each runs in two stretches: the first  *)
(* write on the backend getDB() names, and after that await the mirror     *)
(* step guarded by useFirebase.                                            *)
(***************************************************************************)
\* a call as the caller sees it: pc is "await" between the two stretches,
\* "done" once it resolved and "rejected" once it threw; err tells which
\* write threw; ret is the resolved value (None for null / undefined)
NewCall(op, store, data, route, res) ==
    [op |-> op, store |-> store, data |-> data, route |-> route,
     pc |-> IF res.status = "error" THEN "rejected" ELSE "await",
     err |-> IF res.status = "error" THEN "first" ELSE "none",
     ret |-> res.key, rows |-> {}, mirrored |-> FALSE]

\* the caller issues a call: it is appended to the calls still in flight
Issue(c) ==
    /\ nCalls < MaxCalls
    /\ nCalls' = nCalls + 1
    /\ calls' = Append(SelectSeq(calls, LAMBDA d : d.pc = "await"), c)

\* the first write of a call went to Local Store
CommitLocal(store, res) ==
    /\ local' = [local EXCEPT ![store] = res.recs]
    /\ nextId' = [nextId EXCEPT ![store] = res.next]

\* the first write of a call went to Remote Store
CommitRemote(store, res) ==
    /\ remote' = [remote EXCEPT ![store] = res.docs]
    /\ nextCloud' = res.next

\* add with a silent fallback: when the Remote Store write fails the record
\* is persisted in Local Store only and the call resolves
AddBeginFallback(store, x, netOk) ==
    LET data == [id |-> None, cloudId |-> None, val |-> x, createdAt |-> None]
    IN /\ IF getDB = "remote" /\ RemoteAdd(store, data, netOk).status = "ok"
          THEN LET res == RemoteAdd(store, data, netOk)
               IN /\ CommitRemote(store, res)
                  /\ Issue(NewCall("add", store, data, "remote", res))
                  /\ UNCHANGED <<local, nextId>>
          ELSE LET res == LocalAdd(store, data)
               IN /\ CommitLocal(store, res)
                  /\ Issue(NewCall("add", store, data, getDB, res))
                  /\ UNCHANGED <<remote, nextCloud>>
       /\ UNCHANGED <<modeVars, settingVars, syncs, lastInit, sessVars>>

\* add with both writes started together: the mirror record, carrying the
\* document id the upload is expected to get, is written whether or not the
\* Remote Store write succeeds
AddBeginParallel(store, x, netOk) ==
    LET data == [id |-> None, cloudId |-> None, val |-> x, createdAt |-> None]
    IN /\ IF getDB = "remote"
          THEN LET res == RemoteAdd(store, data, netOk)
                   mir == LocalAdd(store, [data EXCEPT !.cloudId = CloudIdBase + nextCloud])
               IN /\ CommitRemote(store, res)
                  /\ CommitLocal(store, mir)
                  /\ Issue([NewCall("add", store, data, "remote", res) EXCEPT
                              !.pc = IF res.status = "error" THEN "rejected" ELSE "done",
                              !.mirrored = TRUE])
          ELSE LET res == LocalAdd(store, data)
               IN /\ CommitLocal(store, res)
                  /\ Issue(NewCall("add", store, data, "local", res))
                  /\ UNCHANGED <<remote, nextCloud>>
       /\ UNCHANGED <<modeVars, settingVars, syncs, lastInit, sessVars>>

\* const id = await getDB().add(store, data)
AddBegin(store, x, netOk) ==
    LET data == [id |-> None, cloudId |-> None, val |-> x, createdAt |-> None]
    IN /\ IF getDB = "remote"
          THEN LET res == RemoteAdd(store, data, netOk)
               IN /\ CommitRemote(store, res)
                  /\ Issue(NewCall("add", store, data, "remote", res))
                  /\ UNCHANGED <<local, nextId>>
          ELSE LET res == LocalAdd(store, data)
               IN /\ CommitLocal(store, res)
                  /\ Issue(NewCall("add", store, data, "local", res))
                  /\ UNCHANGED <<remote, nextCloud>>
       /\ UNCHANGED <<modeVars, settingVars, syncs, lastInit, sessVars>>

\* const result = await getDB().update(store, data)
UpdateBegin(store, data, netOk) ==
    /\ IF getDB = "remote"
       THEN LET res == RemoteUpdate(store, data, netOk)
            IN /\ CommitRemote(store, res)
               /\ Issue(NewCall("update", store, data, "remote", res))
               /\ UNCHANGED <<local, nextId>>
       ELSE LET res == LocalUpdate(store, data)
            IN /\ CommitLocal(store, res)
               /\ Issue(NewCall("update", store, data, "local", res))
               /\ UNCHANGED <<remote, nextCloud>>
    /\ UNCHANGED <<modeVars, settingVars, syncs, lastInit, sessVars>>

\* await getDB().delete(store, id)
DeleteBegin(store, id, netOk) ==
    LET data == [id |-> id, cloudId |-> None, val |-> None, createdAt |-> None]
    IN /\ IF getDB = "remote"
          THEN LET res == RemoteDelete(store, id, netOk)
               IN /\ CommitRemote(store, res)
                  /\ Issue(NewCall("delete", store, data, "remote", res))
                  /\ UNCHANGED <<local, nextId>>
          ELSE LET res == LocalDelete(store, id)
               IN /\ CommitLocal(store, res)
                  /\ Issue(NewCall("delete", store, data, "local", res))
                  /\ UNCHANGED <<remote, nextCloud>>
       /\ UNCHANGED <<modeVars, settingVars, syncs, lastInit, sessVars>>

\* a mirror step that stores the payload of add as it is, without the
\* cloud-assigned id
MirrorWriteNoCloudId(c) ==
    CASE c.op = "add" -> LocalAdd(c.store, c.data)
      [] c.op = "update" -> LocalUpdate(c.store, c.data)
      [] c.op = "delete" -> LocalDelete(c.store, c.data.id)

\* the local write the mirror step of a call performs
MirrorWrite(c) ==
    CASE c.op = "add" -> LocalAdd(c.store, [c.data EXCEPT !.cloudId = c.ret])
      [] c.op = "update" -> LocalUpdate(c.store, c.data)
      [] c.op = "delete" -> LocalDelete(c.store, c.data.id)

\* if (useFirebase) { await localDB.<op>(...) }  return ...
\* A throwing mirror write is not caught: the call rejects.
Mirror(i) ==
    LET c == calls[i]
    IN /\ c.pc = "await"
       /\ IF useFirebase
          THEN LET res == MirrorWrite(c)
               IN /\ CommitLocal(c.store, res)
                  /\ calls' = [calls EXCEPT ![i] =
                        IF res.status = "error"
                        THEN [c EXCEPT !.pc = "rejected", !.err = "mirror"]
                        ELSE [c EXCEPT !.pc = "done", !.mirrored = TRUE]]
          ELSE /\ calls' = [calls EXCEPT ![i] = [c EXCEPT !.pc = "done"]]
               /\ UNCHANGED <<local, nextId>>
       /\ UNCHANGED <<modeVars, remote, nextCloud, settingVars, nCalls, syncs, lastInit, sessVars>>

\* if (useFirebase) await localDB.add(store, { ...data, cloudId: id }); return id
AddMirror(i) == calls[i].op = "add" /\ Mirror(i)

\* if (useFirebase) await localDB.update(store, data); return result
UpdateMirror(i) == calls[i].op = "update" /\ Mirror(i)

\* if (useFirebase) await localDB.delete(store, id); return true
DeleteMirror(i) == calls[i].op = "delete" /\ Mirror(i)

\* the records a caller can hold: what reads of either backend return
Held(store) == local[store] \cup RemoteGetAll(store)

\* the ids a caller can hold: those of the records it read and the
\* identifiers add returned
HeldIds(store) ==
    {r.id : r \in Held(store)} \cup {d.docId : d \in remote[store]}

(***************************************************************************)
(* database.get / getAll / getByIndex / getSetting / setSetting: a single  *)
(* call on the backend getDB() names, no mirror step.                      *)
(***************************************************************************)
\* a read or a settings call, which resolves or rejects in one stretch
OneShot(op, store, data, route, ok, ret, rows) ==
    [op |-> op, store |-> store, data |-> data, route |-> route,
     pc |-> IF ok THEN "done" ELSE "rejected",
     err |-> IF ok THEN "none" ELSE "first",
     ret |-> ret, rows |-> rows, mirrored |-> FALSE]

NoData == [id |-> None, cloudId |-> None, val |-> None, createdAt |-> None]

\* return getDB().get(store, id)
Get(store, id, netOk) ==
    /\ Issue(IF getDB = "remote"
          THEN OneShot("get", store, [NoData EXCEPT !.id = id], "remote", RemoteUp(netOk), None,
                       IF RemoteUp(netOk) THEN RemoteGet(store, id) ELSE {})
          ELSE OneShot("get", store, [NoData EXCEPT !.id = id], "local", TRUE, None,
                       LocalGet(store, id)))
    /\ UNCHANGED <<modeVars, storeVars, settingVars, syncs, lastInit, sessVars>>

\* return getDB().getAll(store)
GetAll(store, netOk) ==
    /\ Issue(IF getDB = "remote"
          THEN OneShot("getAll", store, NoData, "remote", RemoteUp(netOk), None,
                       IF RemoteUp(netOk) THEN RemoteGetAll(store) ELSE {})
          ELSE OneShot("getAll", store, NoData, "local", TRUE, None, LocalGetAll(store)))
    /\ UNCHANGED <<modeVars, storeVars, settingVars, syncs, lastInit, sessVars>>

\* return getDB().getByIndex(store, field, value)
GetByIndex(store, value, netOk) ==
    /\ Issue(IF getDB = "remote"
          THEN OneShot("getByIndex", store, [NoData EXCEPT !.val = value], "remote",
                       RemoteUp(netOk), None,
                       IF RemoteUp(netOk) THEN RemoteGetByIndex(store, value) ELSE {})
          ELSE OneShot("getByIndex", store, [NoData EXCEPT !.val = value], "local", TRUE, None,
                       LocalGetByIndex(store, value)))
    /\ UNCHANGED <<modeVars, storeVars, settingVars, syncs, lastInit, sessVars>>

\* Database.getSetting: (await this.get('settings', key))?.value
LocalGetSetting == IF ~localReady THEN NoSetting ELSE localSetting

\* firebaseDB.getSetting: docSnap.exists() ? docSnap.data().value : null
RemoteGetSetting == IF remoteSetting = NoSetting THEN Null ELSE remoteSetting

\* return getDB().getSetting(key)
GetSetting(netOk) ==
    /\ Issue(IF getDB = "remote"
          THEN OneShot("getSetting", "settings", NoData, "remote", RemoteUp(netOk),
                       IF RemoteUp(netOk) THEN RemoteGetSetting ELSE NoSetting, {})
          ELSE OneShot("getSetting", "settings", NoData, "local", TRUE, LocalGetSetting, {}))
    /\ UNCHANGED <<modeVars, storeVars, settingVars, syncs, lastInit, sessVars>>

\* return getDB().setSetting(key, value): setDoc on the settings document, or
\* Database.update on the settings record (skipped before init())
SetSetting(value, netOk) ==
    /\ IF getDB = "remote"
       THEN /\ remoteSetting' = IF RemoteUp(netOk) THEN value ELSE remoteSetting
            /\ Issue(OneShot("setSetting", "settings", [NoData EXCEPT !.val = value],
                                              "remote", RemoteUp(netOk), None, {}))
            /\ UNCHANGED localSetting
       ELSE /\ localSetting' = IF localReady THEN value ELSE localSetting
            /\ Issue(OneShot("setSetting", "settings", [NoData EXCEPT !.val = value],
                                              "local", TRUE, None, {}))
            /\ UNCHANGED remoteSetting
    /\ UNCHANGED <<modeVars, storeVars, syncs, lastInit, sessVars>>

(***************************************************************************)
(* database.syncToCloud.                                                   *)
(***************************************************************************)
RECURSIVE SortById(_)
\* the records of a store in key order, the order getAll returns them in
SortById(recs) ==
    IF recs = {} THEN <<>>
    ELSE LET m == CHOOSE r \in recs : \A o \in recs : r.id <= o.id
         IN <<m>> \o SortById(recs \ {m})

\* a loop that uploads every item of the snapshot, synced or not
UnsyncedAll(items) == items

\* if (!item.cloudId): the items of the snapshot the loop uploads
Unsynced(items) == SelectSeq(items, LAMBDA r : r.cloudId = None)

\* a loop that ends after its first store: the pass returns true without
\* visiting the stores after it
NextStoreStop(p) ==
    [p EXCEPT !.pc = "done", !.items = <<>>, !.cloudId = None, !.ret = TRUE]

\* the pass moves on to the next store of the for loop, or returns true
NextStore(p) ==
    IF p.idx < Len(StoreOrder)
    THEN [p EXCEPT !.pc = "getAll", !.idx = p.idx + 1, !.items = <<>>, !.cloudId = None]
    ELSE [p EXCEPT !.pc = "done", !.items = <<>>, !.cloudId = None, !.ret = TRUE]

\* an error that leaves the loop: the pass rejects at the first store
\* that throws
CaughtAbort(p) ==
    [p EXCEPT !.pc = "rejected", !.errs = p.errs \cup {StoreOrder[p.idx]},
              !.items = <<>>, !.cloudId = None]

\* catch (error) { console.error(...) }: the store is logged and the loop
\* continues with the next store
Caught(p) == NextStore([p EXCEPT !.errs = p.errs \cup {StoreOrder[p.idx]}])

\* the number of Local Store records without cloudId
CountUnsynced ==
    LET n(store) == Cardinality({r \in local[store] : r.cloudId = None})
    IN n(StoreOrder[1]) + n(StoreOrder[2])

\* if (!useFirebase || !firebaseModule) return false; else enter the loop.
\* seq numbers the operations in the order they were started, pending is
\* the number of unsynced records the pass starts from and ups counts the
\* uploads it has made.
SyncStart ==
    /\ Len(syncs) < MaxSyncs
    /\ syncs' = Append(syncs,
          [pc |-> IF ~useFirebase \/ ~firebaseModule THEN "unavailable" ELSE "getAll",
           idx |-> 1, items |-> <<>>, cloudId |-> None, errs |-> {}, ret |-> FALSE,
           ups |-> 0, pending |-> CountUnsynced, seq |-> nCalls + Len(syncs) + 1])
    /\ UNCHANGED <<modeVars, storeVars, settingVars, calls, nCalls, lastInit, sessVars>>

\* const localData = await localDB.getAll(store), and the loop up to the
\* first item without cloudId
SyncGetAll(j) ==
    LET p == syncs[j]
        todo == Unsynced(SortById(LocalGetAll(StoreOrder[p.idx])))
    IN /\ p.pc = "getAll"
       /\ syncs' = [syncs EXCEPT ![j] =
             IF todo = <<>> THEN NextStore(p)
             ELSE [p EXCEPT !.pc = "upload", !.items = todo]]
       /\ UNCHANGED <<modeVars, storeVars, settingVars, calls, nCalls, lastInit, sessVars>>

\* an upload that first looks in Remote Store for a document uploaded from
\* the same record and, when there is one, adopts its id instead of
\* creating another document
SyncUploadOnce(j, netOk) ==
    LET p == syncs[j]
        store == StoreOrder[p.idx]
        res == RemoteAdd(store, Head(p.items), netOk)
        same == {d \in remote[store] : d.id = Head(p.items).id}
    IN /\ p.pc = "upload"
       /\ IF res.status = "ok" /\ same # {}
          THEN /\ UNCHANGED <<remote, nextCloud>>
               /\ syncs' = [syncs EXCEPT ![j] =
                     [p EXCEPT !.pc = "rewrite",
                               !.cloudId = (CHOOSE d \in same : TRUE).docId]]
          ELSE /\ CommitRemote(store, res)
               /\ syncs' = [syncs EXCEPT ![j] =
                     IF res.status = "error" THEN Caught(p)
                     ELSE [p EXCEPT !.pc = "rewrite", !.cloudId = res.key, !.ups = p.ups + 1]]
       /\ UNCHANGED <<modeVars, local, nextId, settingVars, calls, nCalls, lastInit, sessVars>>

\* const cloudId = await firebaseModule.firebaseDB.add(store, item)
SyncUpload(j, netOk) ==
    LET p == syncs[j]
        store == StoreOrder[p.idx]
        res == RemoteAdd(store, Head(p.items), netOk)
    IN /\ p.pc = "upload"
       /\ CommitRemote(store, res)
       /\ syncs' = [syncs EXCEPT ![j] =
             IF res.status = "error" THEN Caught(p)
             ELSE [p EXCEPT !.pc = "rewrite", !.cloudId = res.key, !.ups = p.ups + 1]]
       /\ UNCHANGED <<modeVars, local, nextId, settingVars, calls, nCalls, lastInit, sessVars>>

\* await localDB.update(store, { ...item, cloudId }), and the loop up to
\* the next item without cloudId
SyncRewrite(j) ==
    LET p == syncs[j]
        store == StoreOrder[p.idx]
        res == LocalUpdate(store, [Head(p.items) EXCEPT !.cloudId = p.cloudId])
    IN /\ p.pc = "rewrite"
       /\ CommitLocal(store, res)
       /\ syncs' = [syncs EXCEPT ![j] =
             IF res.status = "error" THEN Caught(p)
             ELSE IF Tail(p.items) = <<>> THEN NextStore(p)
             ELSE [p EXCEPT !.pc = "upload", !.items = Tail(p.items), !.cloudId = None]]
       /\ UNCHANGED <<modeVars, remote, nextCloud, settingVars, calls, nCalls, lastInit, sessVars>>

(***************************************************************************)
(* Workout execution (class WorkoutsManager): the session state machine.   *)
(* finishSession is cut at its await of db.add; everything else runs in    *)
(* one stretch.                                                            *)
(***************************************************************************)
\* what the session operations after startSession leave alone
restVars == <<modeVars, storeVars, settingVars, calls, nCalls, syncs, lastInit,
              nSessions, appVars>>

\* the number of sets logged in the session so far
Logged ==
    LET n(i) == Len(workoutSession.exercises[i].logsPerSet)
        len == Len(workoutSession.exercises)
    IN IF len = 0 THEN 0 ELSE IF len = 1 THEN n(1) ELSE n(1) + n(2)

\* startSession(workout).  The workout is the one getWorkout read from
\* Local Store, which hands out records only once it is initialised.
StartSession(workout) ==
    /\ localReady
    /\ nSessions < MaxSessions
    /\ nSessions' = nSessions + 1
    /\ currentWorkout' = workout.id
    /\ currentExerciseIndex' = 0
    /\ workoutSession' =
          [live |-> TRUE, workoutId |-> workout.id,
           exercises |-> [i \in DOMAIN workout.exercises |->
                [sets |-> workout.exercises[i].sets, completed |-> FALSE,
                 skipped |-> FALSE, setsCompleted |-> 0, logsPerSet |-> <<>>]],
           totalSets |-> Undefined, totalVolume |-> Undefined]
    /\ UNCHANGED <<modeVars, storeVars, settingVars, calls, nCalls, syncs, lastInit,
                   history, historyNext, finishes, navResult, appVars>>

\* getCurrentExercise(): the index of the exercise returned, NoExercise for
\* null
getCurrentExercise ==
    IF ~workoutSession.live THEN NoExercise ELSE currentExerciseIndex

\* a logSet that keeps one entry per set number: an entry logged again with
\* the same setNumber replaces the earlier one
LogSetDedup(setNumber, reps, weight) ==
    /\ workoutSession.live
    /\ Logged < MaxLogs
    /\ LET i == currentExerciseIndex + 1
           ex == workoutSession.exercises[i]
           logs == Append(SelectSeq(ex.logsPerSet, LAMBDA l : l.setNumber # setNumber),
                          [setNumber |-> setNumber, reps |-> parseInt(reps),
                           weight |-> parseFloat(weight)])
       IN workoutSession' = [workoutSession EXCEPT !.exercises[i] =
             [ex EXCEPT !.logsPerSet = logs,
                        !.setsCompleted = Len(logs),
                        !.completed = (ex.completed \/ Len(logs) >= ex.sets)]]
    /\ UNCHANGED <<restVars, currentWorkout, currentExerciseIndex, history,
                   historyNext, finishes, navResult>>

\* logSet(setNumber, reps, weight) on an active session (it returns at once
\* when there is none)
LogSet(setNumber, reps, weight) ==
    /\ workoutSession.live
    /\ Logged < MaxLogs
    /\ LET i == currentExerciseIndex + 1
           ex == workoutSession.exercises[i]
           logs == Append(ex.logsPerSet,
                          [setNumber |-> setNumber, reps |-> parseInt(reps),
                           weight |-> parseFloat(weight)])
       IN workoutSession' = [workoutSession EXCEPT !.exercises[i] =
             [ex EXCEPT !.logsPerSet = logs,
                        !.setsCompleted = Len(logs),
                        !.completed = (ex.completed \/ Len(logs) >= ex.sets)]]
    /\ UNCHANGED <<restVars, currentWorkout, currentExerciseIndex, history,
                   historyNext, finishes, navResult>>

\* a nextExercise that does not stop at the last exercise
NextExerciseUnclamped ==
    /\ IF workoutSession.live
       THEN /\ currentExerciseIndex' = currentExerciseIndex + 1
            /\ navResult' = currentExerciseIndex + 1
       ELSE /\ navResult' = NoExercise
            /\ UNCHANGED currentExerciseIndex
    /\ UNCHANGED <<restVars, workoutSession, currentWorkout, history, historyNext, finishes>>

\* nextExercise()
NextExercise ==
    /\ IF workoutSession.live
             /\ currentExerciseIndex < Len(workoutSession.exercises) - 1
       THEN /\ currentExerciseIndex' = currentExerciseIndex + 1
            /\ navResult' = currentExerciseIndex + 1
       ELSE /\ navResult' = NoExercise
            /\ UNCHANGED currentExerciseIndex
    /\ UNCHANGED <<restVars, workoutSession, currentWorkout, history, historyNext, finishes>>

\* previousExercise()
PreviousExercise ==
    /\ IF workoutSession.live /\ currentExerciseIndex > 0
       THEN /\ currentExerciseIndex' = currentExerciseIndex - 1
            /\ navResult' = currentExerciseIndex - 1
       ELSE /\ navResult' = NoExercise
            /\ UNCHANGED currentExerciseIndex
    /\ UNCHANGED <<restVars, workoutSession, currentWorkout, history, historyNext, finishes>>

\* skipExercise(): marks the current exercise skipped, then nextExercise()
SkipExercise ==
    /\ IF getCurrentExercise # NoExercise
       THEN workoutSession' = [workoutSession EXCEPT
                !.exercises[currentExerciseIndex + 1].skipped = TRUE]
       ELSE UNCHANGED workoutSession
    /\ IF workoutSession.live
             /\ currentExerciseIndex < Len(workoutSession.exercises) - 1
       THEN /\ currentExerciseIndex' = currentExerciseIndex + 1
            /\ navResult' = currentExerciseIndex + 1
       ELSE /\ navResult' = NoExercise
            /\ UNCHANGED currentExerciseIndex
    /\ UNCHANGED <<restVars, currentWorkout, history, historyNext, finishes>>

\* an isWorkoutComplete that is satisfied by one finished exercise
isWorkoutCompleteSome ==
    /\ workoutSession.live
    /\ \E i \in DOMAIN workoutSession.exercises :
          workoutSession.exercises[i].completed \/ workoutSession.exercises[i].skipped

\* isWorkoutComplete(): exercises.every(ex => ex.completed || ex.skipped)
isWorkoutComplete ==
    /\ workoutSession.live
    /\ \A i \in DOMAIN workoutSession.exercises :
          workoutSession.exercises[i].completed \/ workoutSession.exercises[i].skipped

\* cancelSession()
CancelSession ==
    /\ workoutSession' = NoSession
    /\ currentWorkout' = None
    /\ currentExerciseIndex' = 0
    /\ UNCHANGED <<restVars, history, historyNext, finishes, navResult>>

RECURSIVE ReduceSets(_, _)
\* exercises.reduce((sum, ex) => sum + ex.setsCompleted, sum)
ReduceSets(exs, sum) ==
    IF exs = <<>> THEN sum
    ELSE ReduceSets(Tail(exs), sum + Head(exs).setsCompleted)

RECURSIVE ReduceLogsReps(_, _)
\* a per-exercise total that adds up the repetitions and leaves the weight
\* out
ReduceLogsReps(logs, s) ==
    IF logs = <<>> THEN s
    ELSE ReduceLogsReps(Tail(logs), Plus(s, Head(logs).reps))

RECURSIVE ReduceLogs(_, _)
\* ex.logsPerSet.reduce((s, l) => s + (l.reps * l.weight), s)
ReduceLogs(logs, s) ==
    IF logs = <<>> THEN s
    ELSE ReduceLogs(Tail(logs), Plus(s, Times(Head(logs).reps, Head(logs).weight)))

RECURSIVE ReduceVolume(_, _)
\* exercises.reduce((sum, ex) => sum + ex.logsPerSet.reduce(..., 0), sum)
ReduceVolume(exs, sum) ==
    IF exs = <<>> THEN sum
    ELSE ReduceVolume(Tail(exs), Plus(sum, ReduceLogs(Head(exs).logsPerSet, 0)))

\* finishSession(userId) up to its await: null when no session is active,
\* else the totals are stored in the session and db.add is called with it.
\* snap is the copy of the session the store request holds; noDb tells that
\* Local Store was not initialised, in which case add resolves null.
FinishBegin ==
    /\ Len(finishes) < MaxFinishes
    /\ IF ~workoutSession.live
       THEN /\ finishes' = Append(finishes,
                  [pc |-> "done", snap |-> NoSession, noDb |-> FALSE, ret |-> NoResult])
            /\ UNCHANGED workoutSession
       ELSE LET sess == [workoutSession EXCEPT
                           !.totalSets = ReduceSets(workoutSession.exercises, 0),
                           !.totalVolume = ReduceVolume(workoutSession.exercises, 0)]
            IN /\ workoutSession' = sess
               /\ finishes' = Append(finishes,
                     [pc |-> "await", snap |-> sess, noDb |-> ~localReady,
                      ret |-> NoResult])
    /\ UNCHANGED <<restVars, currentWorkout, currentExerciseIndex, history,
                   historyNext, navResult>>

\* a finishSession that clears the session whether or not the History
\* write succeeded
FinishEndDiscard(i, writeOk) ==
    LET f == finishes[i]
    IN /\ f.pc = "await"
       /\ workoutSession' = NoSession
       /\ currentWorkout' = None
       /\ currentExerciseIndex' = 0
       /\ IF f.noDb \/ ~writeOk
          THEN /\ finishes' = [finishes EXCEPT ![i] = [f EXCEPT !.pc = "done"]]
               /\ UNCHANGED <<history, historyNext>>
          ELSE /\ history' = history \cup {[id |-> historyNext, session |-> f.snap]}
               /\ historyNext' = historyNext + 1
               /\ finishes' = [finishes EXCEPT ![i] = [f EXCEPT !.pc = "done",
                     !.ret = [isNull |-> FALSE, id |-> historyNext,
                              session |-> workoutSession]]]
       /\ UNCHANGED <<restVars, navResult>>

\* finishSession after its await.  db.add resolved with the key of the new
\* History record (null when Local Store was not initialised): the result
\* is { ...this.workoutSession, id } and the session is cleared.  db.add
\* rejected: the catch block reports the error and returns null.
FinishEnd(i, writeOk) ==
    LET f == finishes[i]
    IN /\ f.pc = "await"
       /\ IF f.noDb
          THEN /\ finishes' = [finishes EXCEPT ![i] = [f EXCEPT !.pc = "done",
                     !.ret = [isNull |-> FALSE, id |-> None, session |-> workoutSession]]]
               /\ workoutSession' = NoSession
               /\ currentWorkout' = None
               /\ currentExerciseIndex' = 0
               /\ UNCHANGED <<history, historyNext>>
          ELSE IF writeOk
          THEN /\ history' = history \cup {[id |-> historyNext, session |-> f.snap]}
               /\ historyNext' = historyNext + 1
               /\ finishes' = [finishes EXCEPT ![i] = [f EXCEPT !.pc = "done",
                     !.ret = [isNull |-> FALSE, id |-> historyNext,
                              session |-> workoutSession]]]
               /\ workoutSession' = NoSession
               /\ currentWorkout' = None
               /\ currentExerciseIndex' = 0
          ELSE /\ finishes' = [finishes EXCEPT ![i] = [f EXCEPT !.pc = "done"]]
               /\ UNCHANGED <<workoutSession, currentWorkout, currentExerciseIndex,
                              history, historyNext>>
       /\ UNCHANGED <<restVars, navResult>>

(***************************************************************************)
(* Check-ins (checkins.js).  A check-in record carries the UTC date of the *)
(* moment it was recorded, new Date().toISOString().split('T')[0]; days    *)
(* are numbered, and calls are made at a time of day at which the local    *)
(* date and the UTC date are the same.                                     *)
(***************************************************************************)
\* number of days a behaviour spans
MaxDays == 5

\* the time zone of the browser: west of UTC, UTC, east of UTC
Zones == {"west", "utc", "east"}

\* new Date(date) followed by setHours(0, 0, 0, 0): a date-only string is
\* parsed as midnight UTC, which west of UTC is an hour of the day before,
\* and setHours moves to the local midnight of that day
LocalMidnight(d, zone) == IF zone = "west" THEN d - 1 ELSE d

RECURSIVE SortDesc(_)
\* the check-in dates, most recent first
SortDesc(days) ==
    IF days = {} THEN <<>>
    ELSE LET m == CHOOSE d \in days : \A e \in days : e <= d
         IN <<m>> \o SortDesc(days \ {m})

RECURSIVE CountStreak(_, _, _, _)
\* for (const checkin of sorted): a check-in on checkDate counts and moves
\* checkDate one day back, an earlier one ends the loop
CountStreak(sorted, checkDate, n, zone) ==
    IF sorted = <<>> THEN n
    ELSE LET checkinDate == LocalMidnight(Head(sorted), zone)
         IN IF checkinDate = checkDate
            THEN CountStreak(Tail(sorted), checkDate - 1, n + 1, zone)
            ELSE IF checkinDate < checkDate THEN n
            ELSE CountStreak(Tail(sorted), checkDate, n, zone)

\* getStreak(userId) of js/modules/checkins.js, on the dates of the user's
\* check-ins
getStreak(days, now, zone) ==
    IF days = {} THEN 0
    ELSE LET sorted == SortDesc(days)
             yesterday == now - 1
             mostRecent == LocalMidnight(Head(sorted), zone)
         IN IF mostRecent < yesterday THEN 0
            ELSE CountStreak(sorted, IF mostRecent = now THEN now ELSE yesterday, 0, zone)

RECURSIVE RunEnding(_, _)
\* while (dates.includes(dateStr)) { streak++; one day back }
RunEnding(days, d) == IF d \in days THEN 1 + RunEnding(days, d - 1) ELSE 0

\* getStreak(userId) of the other check-ins module, which compares the
\* date strings themselves
getStreakByDates(days, now) ==
    IF days = {} THEN 0
    ELSE IF now \notin days /\ (now - 1) \notin days THEN 0
    ELSE RunEnding(days, IF now \in days THEN now ELSE now - 1)

\* recordCheckin(userId, ...): one record per date (a second check-in of
\* the day is added to the record of that date)
RecordCheckin ==
    /\ checkins' = checkins \cup {today}
    /\ UNCHANGED <<modeVars, storeVars, settingVars, calls, nCalls, syncs, lastInit,
                   workoutSession, currentWorkout, currentExerciseIndex, history,
                   historyNext, finishes, nSessions, navResult, today, streak, seed, pageVars>>

\* midnight passes
NextDay ==
    /\ today < MaxDays
    /\ today' = today + 1
    /\ UNCHANGED <<modeVars, storeVars, settingVars, calls, nCalls, syncs, lastInit,
                   workoutSession, currentWorkout, currentExerciseIndex, history,
                   historyNext, finishes, nSessions, navResult, checkins, streak, seed, pageVars>>

\* getStreak(userId) is called in a browser of the given time zone
GetStreak(zone) ==
    /\ streak' = [zone |-> zone, day |-> today, days |-> checkins,
                  value |-> getStreak(checkins, today, zone),
                  byDates |-> getStreakByDates(checkins, today)]
    /\ UNCHANGED <<modeVars, storeVars, settingVars, calls, nCalls, syncs, lastInit,
                   workoutSession, currentWorkout, currentExerciseIndex, history,
                   historyNext, finishes, nSessions, navResult, checkins, today, seed,
                   pageVars>>

(***************************************************************************)
(* Seeding the exercise catalog (app.js seedDatabase), which init() calls  *)
(* on every page load once database.init() has settled or timed out.  The  *)
(* run is cut at its awaits; db is the Sync Adapter.  Whatever throws      *)
(* inside is caught and logged: the run ends.                              *)
(***************************************************************************)
\* number of seedDatabase runs in one behaviour
MaxSeeds == 2

\* what ./js/data/exercises.json can hold: entries that carry their own id,
\* entries without one, or no entries
Catalogs ==
    {<<[id |-> 1, cloudId |-> None, val |-> 1, createdAt |-> None],
       [id |-> 2, cloudId |-> None, val |-> 2, createdAt |-> None]>>,
     <<[id |-> None, cloudId |-> None, val |-> 1, createdAt |-> None],
       [id |-> None, cloudId |-> None, val |-> 2, createdAt |-> None]>>,
     <<>>}

\* the run has returned
SeedDone == [seed EXCEPT !.pc = "done", !.items = <<>>, !.id = None]

\* const exercises = await db.getAll(STORES.exercises);
\* if (exercises?.length > 0) return
SeedStart(netOk) ==
    LET rows == IF getDB = "remote" THEN RemoteGetAll("exercises")
                ELSE LocalGetAll("exercises")
        run == [seed EXCEPT !.n = seed.n + 1,
                  !.wasEmpty = (local["exercises"] = {} /\ remote["exercises"] = {})]
    IN /\ seed.pc \in {"idle", "done"}
       /\ seed.n < MaxSeeds
       /\ seed' = IF (getDB = "remote" /\ ~RemoteUp(netOk)) \/ rows # {}
                  THEN [run EXCEPT !.pc = "done"]
                  ELSE [run EXCEPT !.pc = "fetch"]
       /\ UNCHANGED <<modeVars, storeVars, settingVars, calls, nCalls, syncs, lastInit,
                      workoutSession, currentWorkout, currentExerciseIndex, history,
                      historyNext, finishes, nSessions, navResult, checkins, today, streak, pageVars>>

\* const response = await fetch(...); const data = await response.json();
\* if (!data?.exercises?.length) return
SeedFetch(data, ok) ==
    /\ seed.pc = "fetch"
    /\ seed' = IF ~ok \/ data = <<>> THEN SeedDone
               ELSE [seed EXCEPT !.pc = "add", !.items = data]
    /\ UNCHANGED <<modeVars, storeVars, settingVars, calls, nCalls, syncs, lastInit,
                   workoutSession, currentWorkout, currentExerciseIndex, history,
                   historyNext, finishes, nSessions, navResult, checkins, today, streak, pageVars>>

\* await db.add(STORES.exercises, exercise), up to the await inside add:
\* const id = await getDB().add(store, data)
SeedAdd(netOk) ==
    /\ seed.pc = "add"
    /\ IF getDB = "remote"
       THEN LET res == RemoteAdd("exercises", Head(seed.items), netOk)
            IN /\ CommitRemote("exercises", res)
               /\ seed' = IF res.status = "error" THEN SeedDone
                          ELSE [seed EXCEPT !.pc = "mirror", !.id = res.key]
               /\ UNCHANGED <<local, nextId>>
       ELSE LET res == LocalAdd("exercises", Head(seed.items))
            IN /\ CommitLocal("exercises", res)
               /\ seed' = IF res.status = "error" THEN SeedDone
                          ELSE [seed EXCEPT !.pc = "mirror", !.id = res.key]
               /\ UNCHANGED <<remote, nextCloud>>
    /\ UNCHANGED <<modeVars, settingVars, calls, nCalls, syncs, lastInit,
                   workoutSession, currentWorkout, currentExerciseIndex, history,
                   historyNext, finishes, nSessions, navResult, checkins, today, streak, pageVars>>

\* the rest of add: if (useFirebase) await localDB.add(store, { ...data,
\* cloudId: id }); then count++ and the next exercise of the loop
SeedMirror ==
    LET res == LocalAdd("exercises", [Head(seed.items) EXCEPT !.cloudId = seed.id])
        next == IF Tail(seed.items) = <<>> THEN SeedDone
                ELSE [seed EXCEPT !.pc = "add", !.items = Tail(seed.items), !.id = None]
    IN /\ seed.pc = "mirror"
       /\ IF useFirebase
          THEN /\ CommitLocal("exercises", res)
               /\ seed' = IF res.status = "error" THEN SeedDone ELSE next
          ELSE /\ seed' = next
               /\ UNCHANGED <<local, nextId>>
       /\ UNCHANGED <<modeVars, remote, nextCloud, settingVars, calls, nCalls, syncs,
                      lastInit, workoutSession, currentWorkout, currentExerciseIndex,
                      history, historyNext, finishes, nSessions, navResult, checkins,
                      today, streak, pageVars>>

(***************************************************************************)
(* Router (router.js).  handleRoute is async: an invocation is cut at its  *)
(* awaits, and a hashchange event may start another one in between.  Each  *)
(* invocation keeps the trail of the hooks and callbacks it called.        *)
(***************************************************************************)
\* handleRoute invocations on one page
MaxNavs == 2

\* registered before-navigation and after-navigation hooks
NumBefore == 2
NumAfter == 1

\* this.routes: the callbacks each registered path was added with
Routes ==
    [dashboard |-> [render |-> TRUE, onEnter |-> TRUE, onLeave |-> TRUE],
     workouts  |-> [render |-> TRUE, onEnter |-> FALSE, onLeave |-> FALSE],
     profile   |-> [render |-> FALSE, onEnter |-> TRUE, onLeave |-> TRUE]]

\* a before hook that lets every navigation through
BlocksNever(result) == FALSE

\* if (result === false) return
Blocks(result) == result = "false"

\* handleRoute from the given point up to its next await (or its end): the
\* invocation's record and this.currentRoute afterwards.  The points, in
\* the order of the code: "leave" (previous route's onLeave), "set"
\* (this.currentRoute = path), "enter" (onEnter), "render", "after" (the
\* next after hook).
RECURSIVE Advance(_, _, _)
Advance(run, cur, point) ==
    LET cfg == Routes[run.path]
        call(name, arg, pc) ==
            [run |-> [run EXCEPT !.trail = Append(@, <<name, arg>>), !.pc = pc],
             cur |-> cur]
    IN CASE point = "leave" ->
              IF cur # NoRoute /\ cur \in DOMAIN Routes /\ Routes[cur].onLeave
              THEN call("onLeave", cur, "onLeave")
              ELSE Advance(run, cur, "set")
         [] point = "set" ->
              Advance([run EXCEPT !.prev = cur, !.i = 1], run.path, "enter")
         [] point = "enter" ->
              IF cfg.onEnter THEN call("onEnter", run.path, "onEnter")
              ELSE Advance(run, cur, "render")
         [] point = "render" ->
              IF cfg.render THEN call("render", run.path, "render")
              ELSE Advance(run, cur, "after")
         [] point = "after" ->
              IF run.i <= NumAfter
              THEN [run |-> [run EXCEPT !.trail = Append(@, <<"after", run.prev>>),
                                        !.i = @ + 1, !.pc = "after"],
                    cur |-> cur]
              ELSE [run |-> [run EXCEPT !.pc = "done"], cur |-> cur]

\* const path = this.getCurrentPath(); const route = this.routes.get(path);
\* if (!route) { ...; return }, then the first before hook is called
HandleRoute(path) ==
    LET run == [path |-> path, i |-> 1, trail |-> <<>>, prev |-> NoRoute, pc |-> "before"]
        next == IF path \notin DOMAIN Routes
                THEN [run |-> [run EXCEPT !.pc = "done"], cur |-> currentRoute]
                ELSE IF NumBefore > 0 THEN [run |-> run, cur |-> currentRoute]
                ELSE Advance(run, currentRoute, "leave")
    IN /\ Len(nav) < MaxNavs
       /\ nav' = Append(nav, next.run)
       /\ currentRoute' = next.cur
       /\ UNCHANGED <<coreVars, hostname, isDevelopment, console, user, auth>>

\* const result = await hook(path, this.currentRoute) resolves;
\* if (result === false) return; the next hook, or the rest of handleRoute
BeforeHook(r, result) ==
    LET run == [nav[r] EXCEPT !.trail = Append(@, <<"before", result>>)]
        next == IF Blocks(result)
                THEN [run |-> [run EXCEPT !.pc = "done"], cur |-> currentRoute]
                ELSE IF run.i < NumBefore
                THEN [run |-> [run EXCEPT !.i = @ + 1], cur |-> currentRoute]
                ELSE Advance(run, currentRoute, "leave")
    IN /\ r \in DOMAIN nav
       /\ nav[r].pc = "before"
       /\ nav' = [nav EXCEPT ![r] = next.run]
       /\ currentRoute' = next.cur
       /\ UNCHANGED <<coreVars, hostname, isDevelopment, console, user, auth>>

\* the awaited onLeave, onEnter, render or after hook resolves and
\* handleRoute goes on
Resume(r) ==
    LET run == nav[r]
        next == Advance(run, currentRoute,
                        CASE run.pc = "onLeave" -> "set"
                          [] run.pc = "onEnter" -> "render"
                          [] run.pc = "render" -> "after"
                          [] run.pc = "after" -> "after")
    IN /\ r \in DOMAIN nav
       /\ run.pc \in {"onLeave", "onEnter", "render", "after"}
       /\ nav' = [nav EXCEPT ![r] = next.run]
       /\ currentRoute' = next.cur
       /\ UNCHANGED <<coreVars, hostname, isDevelopment, console, user, auth>>

(***************************************************************************)
(* Who is logged in (app.js): handleSuccessfulLogin, logout, and           *)
(* loadSettings, which init() runs on every page load.  The setting        *)
(* 'currentUserId' is read and written through the Sync Adapter, that is   *)
(* on the backend getDB() names at that moment.                            *)
(***************************************************************************)
\* db.setSetting('currentUserId', value) resolves (with the write done, or
\* skipped by a Local Store that is not initialised)
SettingWritable(netOk) == getDB = "local" \/ RemoteUp(netOk)

\* handleSuccessfulLogin(user): state.user = user; await db.setSetting(
\* 'currentUserId', user.id); try { await db.enableCloud(); ... }
Login(uid, netOk, localOk, hs) ==
    /\ user = None
    /\ user' = uid
    /\ IF SettingWritable(netOk)
       THEN /\ IF getDB = "remote"
               THEN remoteSetting' = uid /\ UNCHANGED localSetting
               ELSE /\ localSetting' = (IF localReady THEN uid ELSE localSetting)
                    /\ UNCHANGED remoteSetting
            /\ auth' = [auth EXCEPT !.cleared = @ /\ getDB = "local" /\ ~localReady]
            /\ initDatabase(TRUE, localOk, hs)
       ELSE UNCHANGED <<settingVars, auth, modeVars, lastInit>>
    /\ UNCHANGED <<storeVars, calls, nCalls, syncs, workoutSession, currentWorkout,
                   currentExerciseIndex, history, historyNext, finishes, nSessions,
                   navResult, checkins, today, streak, seed, currentRoute, nav,
                   hostname, isDevelopment, console>>

\* logout(): state.user = null; try { await db.setSetting('currentUserId',
\* null) } catch (e) { ... }; the page is reloaded afterwards
Logout(netOk) ==
    /\ user # None
    /\ user' = None
    /\ IF SettingWritable(netOk)
       THEN IF getDB = "remote"
            THEN remoteSetting' = Null /\ UNCHANGED localSetting
            ELSE /\ localSetting' = (IF localReady THEN Null ELSE localSetting)
                 /\ UNCHANGED remoteSetting
       ELSE UNCHANGED settingVars
    /\ auth' = [auth EXCEPT !.restored = FALSE,
                            !.cleared = IF SettingWritable(netOk) /\ (getDB = "remote" \/ localReady)
                                        THEN TRUE ELSE @]
    /\ UNCHANGED <<modeVars, lastInit, storeVars, calls, nCalls, syncs, workoutSession,
                   currentWorkout, currentExerciseIndex, history, historyNext, finishes,
                   nSessions, navResult, checkins, today, streak, seed, currentRoute,
                   nav, hostname, isDevelopment, console>>

\* loadSettings(): const userId = await db.getSetting('currentUserId');
\* if (userId) { state.user = await db.get(STORES.users, userId); if
\* (state.user) enableCloud() else setSetting('currentUserId', null) }.
\* A rejected read leaves loadSettings by the exception.
LoadSettings(netOk, localOk, hs) ==
    LET userId == IF getDB = "remote" THEN RemoteGetSetting ELSE LocalGetSetting
        found == IF getDB = "remote" THEN RemoteGet("users", userId)
                 ELSE LocalGet("users", userId)
    IN /\ ~auth.loaded
       /\ IF ~SettingWritable(netOk) \/ userId \in {Null, NoSetting}
          THEN /\ auth' = [auth EXCEPT !.loaded = TRUE]
               /\ UNCHANGED <<user, settingVars, modeVars, lastInit>>
          ELSE IF found # {}
          THEN /\ user' = userId
               /\ auth' = [auth EXCEPT !.loaded = TRUE, !.restored = TRUE]
               /\ initDatabase(TRUE, localOk, hs)
               /\ UNCHANGED settingVars
          ELSE /\ auth' = [auth EXCEPT !.loaded = TRUE]
               /\ IF getDB = "remote"
                  THEN remoteSetting' = Null /\ UNCHANGED localSetting
                  ELSE /\ localSetting' = (IF localReady THEN Null ELSE localSetting)
                       /\ UNCHANGED remoteSetting
               /\ UNCHANGED <<user, modeVars, lastInit>>
       /\ UNCHANGED <<storeVars, calls, nCalls, syncs, workoutSession, currentWorkout,
                      currentExerciseIndex, history, historyNext, finishes, nSessions,
                      navResult, checkins, today, streak, seed, currentRoute, nav,
                      hostname, isDevelopment, console>>

(***************************************************************************)
(* Logger utility.  isDevelopment is a constant of the module: it is       *)
(* computed from window.location.hostname when the module is loaded.       *)
(***************************************************************************)
\* logger calls on one page
MaxLogCalls == 2

\* logger.log / info / warn: if (isDevelopment) console.<level>(...args);
\* logger.error: console.error(...args)
LoggerCall(level) ==
    /\ Len(console) < MaxLogCalls
    /\ console' = Append(console,
          [level |-> level, host |-> hostname,
           out |-> IF level = "error" THEN TRUE ELSE isDevelopment])
    /\ UNCHANGED <<coreVars, currentRoute, nav, hostname, isDevelopment, user, auth>>

\* window.location is replaced (as the unit test does with
\* Object.defineProperty) while the module stays loaded
SetHostname(host) ==
    /\ hostname' = host
    /\ UNCHANGED <<coreVars, currentRoute, nav, isDevelopment, console, user, auth>>

(***************************************************************************)
(* Specifications.                                                         *)
(*                                                                         *)
(* Spec: the adapter's write calls and mode switches in every interleaving *)
(* the event loop allows: a call suspended at its await can be overtaken   *)
(* by other calls, by enableCloud and by disableCloud.                     *)
(***************************************************************************)
Next ==
    \/ \E localOk \in BOOLEAN, hs \in Handshakes : DatabaseInit(localOk, hs)
    \/ \E localOk \in BOOLEAN, hs \in Handshakes : EnableCloud(localOk, hs)
    \/ DisableCloud
    \/ \E s \in Stores, x \in Vals, netOk \in BOOLEAN : AddBegin(s, x, netOk)
    \/ \E s \in Stores, netOk \in BOOLEAN :
          \E r \in Held(s), x \in Vals : UpdateBegin(s, [r EXCEPT !.val = x], netOk)
    \/ \E s \in Stores, netOk \in BOOLEAN :
          \E id \in HeldIds(s) : DeleteBegin(s, id, netOk)
    \/ \E i \in DOMAIN calls : AddMirror(i)
    \/ \E i \in DOMAIN calls : UpdateMirror(i)
    \/ \E i \in DOMAIN calls : DeleteMirror(i)

Spec == Init /\ [][Next]_vars

(***************************************************************************)
(* SeqSpec: non-overlapping operation.  Every adapter operation, mode      *)
(* switch and syncToCloud pass starts only when no other one is in flight. *)
(***************************************************************************)
Quiescent ==
    /\ \A i \in DOMAIN calls : calls[i].pc # "await"
    /\ \A j \in DOMAIN syncs : syncs[j].pc \in {"done", "unavailable"}

SeqNext ==
    \/ Quiescent /\ \E localOk \in BOOLEAN, hs \in Handshakes : DatabaseInit(localOk, hs)
    \/ Quiescent /\ \E localOk \in BOOLEAN, hs \in Handshakes : EnableCloud(localOk, hs)
    \/ Quiescent /\ DisableCloud
    \/ Quiescent /\ \E s \in Stores, x \in Vals, netOk \in BOOLEAN : AddBegin(s, x, netOk)
    \/ Quiescent /\ \E s \in Stores, netOk \in BOOLEAN :
          \E r \in Held(s), x \in Vals : UpdateBegin(s, [r EXCEPT !.val = x], netOk)
    \/ Quiescent /\ \E s \in Stores, netOk \in BOOLEAN :
          \E id \in HeldIds(s) : DeleteBegin(s, id, netOk)
    \/ \E i \in DOMAIN calls : AddMirror(i)
    \/ \E i \in DOMAIN calls : UpdateMirror(i)
    \/ \E i \in DOMAIN calls : DeleteMirror(i)
    \/ Quiescent /\ SyncStart
    \/ \E j \in DOMAIN syncs : SyncGetAll(j)
    \/ \E j \in DOMAIN syncs, netOk \in BOOLEAN : SyncUpload(j, netOk)
    \/ \E j \in DOMAIN syncs : SyncRewrite(j)

SeqSpec == Init /\ [][SeqNext]_vars

(***************************************************************************)
(* ReadSpec: the whole call surface of the adapter (reads, settings and    *)
(* writes) under non-overlapping operation, without reconciliation.        *)
(***************************************************************************)
ReadNext ==
    \/ Quiescent /\ \E localOk \in BOOLEAN, hs \in Handshakes : DatabaseInit(localOk, hs)
    \/ Quiescent /\ \E localOk \in BOOLEAN, hs \in Handshakes : EnableCloud(localOk, hs)
    \/ Quiescent /\ DisableCloud
    \/ Quiescent /\ \E s \in Stores, x \in Vals, netOk \in BOOLEAN : AddBegin(s, x, netOk)
    \/ Quiescent /\ \E s \in Stores, netOk \in BOOLEAN :
          \E r \in Held(s), x \in Vals : UpdateBegin(s, [r EXCEPT !.val = x], netOk)
    \/ Quiescent /\ \E s \in Stores, netOk \in BOOLEAN :
          \E id \in HeldIds(s) : DeleteBegin(s, id, netOk)
    \/ \E i \in DOMAIN calls : AddMirror(i)
    \/ \E i \in DOMAIN calls : UpdateMirror(i)
    \/ \E i \in DOMAIN calls : DeleteMirror(i)
    \/ Quiescent /\ \E s \in Stores, netOk \in BOOLEAN :
          \E id \in HeldIds(s) : Get(s, id, netOk)
    \/ Quiescent /\ \E s \in Stores, netOk \in BOOLEAN : GetAll(s, netOk)
    \/ Quiescent /\ \E s \in Stores, x \in Vals, netOk \in BOOLEAN : GetByIndex(s, x, netOk)
    \/ Quiescent /\ \E netOk \in BOOLEAN : GetSetting(netOk)
    \/ Quiescent /\ \E v \in SettingVals, netOk \in BOOLEAN : SetSetting(v, netOk)

ReadSpec == Init /\ [][ReadNext]_vars

(***************************************************************************)
(* LiveSpec: non-overlapping operation in which syncToCloud is run again   *)
(* and again (after a login, from the sync button).  Passes that returned  *)
(* are forgotten when the next one starts.                                 *)
(***************************************************************************)
\* syncToCloud() called once more, after every earlier pass has returned
SyncAgain ==
    /\ \A j \in DOMAIN syncs : syncs[j].pc \in {"done", "unavailable"}
    /\ syncs' = <<[pc |-> IF ~useFirebase \/ ~firebaseModule THEN "unavailable" ELSE "getAll",
                   idx |-> 1, items |-> <<>>, cloudId |-> None, errs |-> {}, ret |-> FALSE,
                   ups |-> 0, pending |-> CountUnsynced, seq |-> nCalls + 1]>>
    /\ UNCHANGED <<modeVars, storeVars, settingVars, calls, nCalls, lastInit, sessVars>>

\* an upload of the pass that Remote Store accepts
SyncUploadOk ==
    \E j \in DOMAIN syncs : fbDb /\ SyncUpload(j, TRUE)

LiveNext ==
    \/ Quiescent /\ \E localOk \in BOOLEAN, hs \in Handshakes : DatabaseInit(localOk, hs)
    \/ Quiescent /\ \E localOk \in BOOLEAN, hs \in Handshakes : EnableCloud(localOk, hs)
    \/ Quiescent /\ DisableCloud
    \/ Quiescent /\ \E s \in Stores, x \in Vals, netOk \in BOOLEAN : AddBegin(s, x, netOk)
    \/ Quiescent /\ \E s \in Stores, netOk \in BOOLEAN :
          \E r \in Held(s), x \in Vals : UpdateBegin(s, [r EXCEPT !.val = x], netOk)
    \/ \E i \in DOMAIN calls : AddMirror(i)
    \/ \E i \in DOMAIN calls : UpdateMirror(i)
    \/ Quiescent /\ SyncAgain
    \/ \E j \in DOMAIN syncs : SyncGetAll(j)
    \/ \E j \in DOMAIN syncs, netOk \in BOOLEAN : SyncUpload(j, netOk)
    \/ \E j \in DOMAIN syncs : SyncRewrite(j)

\* Fairness: a suspended call or pass is resumed by the event loop (weak
\* fairness of the continuations), syncToCloud keeps being called, and an
\* upload that is attempted again and again is eventually accepted (strong
\* fairness of the successful upload).
LiveSpec ==
    /\ Init
    /\ [][LiveNext]_vars
    /\ WF_vars(\E i \in DOMAIN calls : AddMirror(i))
    /\ WF_vars(\E i \in DOMAIN calls : UpdateMirror(i))
    /\ WF_vars(Quiescent /\ SyncAgain)
    /\ WF_vars(\E j \in DOMAIN syncs : SyncGetAll(j))
    /\ WF_vars(\E j \in DOMAIN syncs : SyncRewrite(j))
    /\ WF_vars(\E j \in DOMAIN syncs, netOk \in BOOLEAN : SyncUpload(j, netOk))
    /\ SF_vars(SyncUploadOk)

(***************************************************************************)
(* RaceSpec: syncToCloud passes that overlap.  The pass started after a    *)
(* login is not awaited and the sync button starts another one, so a pass  *)
(* suspended at an await can be overtaken by a second pass.                *)
(***************************************************************************)
RaceNext ==
    \/ Quiescent /\ \E localOk \in BOOLEAN, hs \in Handshakes : DatabaseInit(localOk, hs)
    \/ Quiescent /\ \E localOk \in BOOLEAN, hs \in Handshakes : EnableCloud(localOk, hs)
    \/ Quiescent /\ \E s \in Stores, x \in Vals, netOk \in BOOLEAN : AddBegin(s, x, netOk)
    \/ \E i \in DOMAIN calls : AddMirror(i)
    \/ SyncStart
    \/ \E j \in DOMAIN syncs : SyncGetAll(j)
    \/ \E j \in DOMAIN syncs, netOk \in BOOLEAN : SyncUpload(j, netOk)
    \/ \E j \in DOMAIN syncs : SyncRewrite(j)

RaceSpec == Init /\ [][RaceNext]_vars

(***************************************************************************)
(* CrashSpec: non-overlapping operation of a process that can stop at any  *)
(* await (the page is closed or reloaded) and start again.  Both stores    *)
(* are durable; the module state and everything in flight are lost.        *)
(***************************************************************************)
\* a pass cut off by the stop: "lostRewrite" when it was between its upload
\* and the rewrite of the local record, "stopped" elsewhere in the loop
Stopped(p) ==
    IF p.pc = "rewrite" THEN [p EXCEPT !.pc = "lostRewrite"]
    ELSE IF p.pc \in {"getAll", "upload"} THEN [p EXCEPT !.pc = "stopped"]
    ELSE p

\* no call and no pass is in flight
Idle ==
    /\ \A i \in DOMAIN calls : calls[i].pc # "await"
    /\ \A j \in DOMAIN syncs : syncs[j].pc \notin {"getAll", "upload", "rewrite"}

\* a stop that first completes the rewrite of a pass caught between upload
\* and rewrite, as a write-ahead journal would
CrashJournal ==
    /\ useCloud' = TRUE
    /\ useFirebase' = FALSE
    /\ firebaseModule' = FALSE
    /\ fbDb' = FALSE
    /\ localReady' = FALSE
    /\ lastInit' = "none"
    /\ calls' = <<>>
    /\ syncs' = [j \in DOMAIN syncs |-> Stopped(syncs[j])]
    /\ local' = [s \in AllStores |->
          {IF \E j \in DOMAIN syncs :
                 /\ syncs[j].pc = "rewrite"
                 /\ StoreOrder[syncs[j].idx] = s
                 /\ Head(syncs[j].items).id = r.id
             THEN [r EXCEPT !.cloudId =
                     syncs[CHOOSE j \in DOMAIN syncs :
                              /\ syncs[j].pc = "rewrite"
                              /\ StoreOrder[syncs[j].idx] = s
                              /\ Head(syncs[j].items).id = r.id].cloudId]
             ELSE r : r \in local[s]}]
    /\ workoutSession' = NoSession
    /\ currentWorkout' = None
    /\ currentExerciseIndex' = 0
    /\ finishes' = SelectSeq(finishes, LAMBDA f : f.pc = "done")
    /\ seed' = [seed EXCEPT !.pc = "idle", !.items = <<>>, !.id = None]
    /\ currentRoute' = NoRoute
    /\ nav' = <<>>
    /\ isDevelopment' = IsDevelopment(hostname)
    /\ console' = <<>>
    /\ user' = None
    /\ auth' = [auth EXCEPT !.loaded = FALSE, !.restored = FALSE]
    /\ UNCHANGED <<nextId, remote, nextCloud, settingVars, nCalls, history,
                   historyNext, nSessions, navResult, checkins, today, streak,
                   hostname>>

\* the process stops and the page is loaded again: the module variables are
\* back at their initial values, suspended calls and passes never resume
Crash ==
    /\ useCloud' = TRUE
    /\ useFirebase' = FALSE
    /\ firebaseModule' = FALSE
    /\ fbDb' = FALSE
    /\ localReady' = FALSE
    /\ lastInit' = "none"
    /\ calls' = <<>>
    /\ syncs' = [j \in DOMAIN syncs |-> Stopped(syncs[j])]
    /\ workoutSession' = NoSession
    /\ currentWorkout' = None
    /\ currentExerciseIndex' = 0
    /\ finishes' = SelectSeq(finishes, LAMBDA f : f.pc = "done")
    /\ seed' = [seed EXCEPT !.pc = "idle", !.items = <<>>, !.id = None]
    /\ currentRoute' = NoRoute
    /\ nav' = <<>>
    /\ isDevelopment' = IsDevelopment(hostname)
    /\ console' = <<>>
    /\ user' = None
    /\ auth' = [auth EXCEPT !.loaded = FALSE, !.restored = FALSE]
    /\ UNCHANGED <<storeVars, settingVars, nCalls, history, historyNext,
                   nSessions, navResult, checkins, today, streak, hostname>>

CrashNext ==
    \/ Idle /\ \E localOk \in BOOLEAN, hs \in Handshakes : DatabaseInit(localOk, hs)
    \/ Idle /\ \E localOk \in BOOLEAN, hs \in Handshakes : EnableCloud(localOk, hs)
    \/ Idle /\ \E s \in Stores, x \in Vals, netOk \in BOOLEAN : AddBegin(s, x, netOk)
    \/ \E i \in DOMAIN calls : AddMirror(i)
    \/ Idle /\ SyncStart
    \/ \E j \in DOMAIN syncs : SyncGetAll(j)
    \/ \E j \in DOMAIN syncs, netOk \in BOOLEAN : SyncUpload(j, netOk)
    \/ \E j \in DOMAIN syncs : SyncRewrite(j)
    \/ Crash

CrashSpec == Init /\ [][CrashNext]_vars

(***************************************************************************)
(* SessionSpec: the execution of workouts.  database.init() runs once when *)
(* the application starts; after that the buttons of the execution screen  *)
(* can be pressed in any order, also while a finishSession is waiting for  *)
(* its History write.                                                      *)
(***************************************************************************)
SessionNext ==
    \/ lastInit = "none" /\ \E localOk \in BOOLEAN : DatabaseInit(localOk, "importFail")
    \/ \E workout \in Workouts : StartSession(workout)
    \/ \E in \in SetInputs : LogSet(in.setNumber, in.reps, in.weight)
    \/ NextExercise
    \/ PreviousExercise
    \/ SkipExercise
    \/ CancelSession
    \/ FinishBegin
    \/ \E i \in DOMAIN finishes, writeOk \in BOOLEAN : FinishEnd(i, writeOk)

SessionSpec == Init /\ [][SessionNext]_vars

(***************************************************************************)
(* StoreSpec: Local Store as the domain managers use it, by calling db.add *)
(* and db.delete of database.js directly.  A call made before init()       *)
(* resolves at once; otherwise its request waits in a read-write           *)
(* transaction, and the transactions on one object store run one at a      *)
(* time in the order they were created.  Calls can be issued while earlier *)
(* ones wait.                                                              *)
(***************************************************************************)
\* the calls that write
WriteOps == {"add", "update", "delete"}

\* the keys a caller puts into the records it adds; None leaves the key to
\* the generator
Keys == {None, 1, 2}

\* a call without the guard on this.db: before init() it throws on the null
\* handle and the promise rejects
DbCallUnguarded(op, store, data) ==
    /\ nCalls < MaxCalls
    /\ nCalls' = nCalls + 1
    /\ calls' = Append(calls,
          [op |-> op, store |-> store, data |-> data, route |-> "local",
           pc |-> IF localReady THEN "queued" ELSE "rejected", err |-> "first",
           ret |-> None, rows |-> {}, mirrored |-> FALSE])
    /\ UNCHANGED <<modeVars, storeVars, settingVars, syncs, lastInit, sessVars>>

\* a call on Local Store: before init() it logs that it is skipped and
\* resolves with null, else its request is queued
DbCall(op, store, data) ==
    /\ nCalls < MaxCalls
    /\ nCalls' = nCalls + 1
    /\ calls' = Append(calls,
          [op |-> op, store |-> store, data |-> data, route |-> "local",
           pc |-> IF localReady THEN "queued" ELSE "skipped", err |-> "none",
           ret |-> None, rows |-> {}, mirrored |-> FALSE])
    /\ UNCHANGED <<modeVars, storeVars, settingVars, syncs, lastInit, sessVars>>

\* the request of call i is at the head of the queue of its object store
Runnable(i) ==
    /\ calls[i].pc = "queued"
    /\ \A j \in DOMAIN calls :
          (j < i /\ calls[j].store = calls[i].store) => calls[j].pc # "queued"

\* the request of call i has run: the call resolves with the result or
\* rejects with the error of the request
DbSettle(i, res) ==
    /\ CommitLocal(calls[i].store, res)
    /\ calls' = [calls EXCEPT ![i] =
          IF res.status = "error"
          THEN [calls[i] EXCEPT !.pc = "rejected", !.err = "first"]
          ELSE [calls[i] EXCEPT !.pc = "done", !.ret = res.key]]
    /\ UNCHANGED <<modeVars, remote, nextCloud, settingVars, nCalls, syncs, lastInit,
                   sessVars>>

\* db.add(store, data)
DbAddCall(store, data) == DbCall("add", store, data)

\* store.add(...) runs; onsuccess resolves with the key, onerror rejects
DbAddRun(i) ==
    /\ calls[i].op = "add"
    /\ Runnable(i)
    /\ DbSettle(i, LocalAdd(calls[i].store, calls[i].data))

\* db.delete(store, id)
DbDeleteCall(store, id) == DbCall("delete", store, [NoData EXCEPT !.id = id])

\* store.delete(id) runs
DbDeleteRun(i) ==
    /\ calls[i].op = "delete"
    /\ Runnable(i)
    /\ DbSettle(i, LocalDelete(calls[i].store, calls[i].data.id))

\* number of read calls made on Local Store in one behaviour
MaxReads == 1

\* the calls that read
ReadOps == {"get", "getAll", "getByIndex", "getSetting"}

\* a read call on Local Store: resolved at once with the empty answer
\* before init(), else queued in a read-only transaction
DbRead(op, store, data) ==
    /\ Cardinality({i \in DOMAIN calls : calls[i].op \in ReadOps}) < MaxReads
    /\ calls' = Append(calls,
          [op |-> op, store |-> store, data |-> data, route |-> "local",
           pc |-> IF localReady THEN "queued" ELSE "skipped", err |-> "none",
           ret |-> None, rows |-> {}, mirrored |-> FALSE])
    /\ UNCHANGED <<modeVars, storeVars, settingVars, nCalls, syncs, lastInit, sessVars>>

\* the request of read call i has run: the call resolves with its result
DbAnswer(i, rows) ==
    /\ Runnable(i)
    /\ calls' = [calls EXCEPT ![i] = [calls[i] EXCEPT !.pc = "done", !.rows = rows]]
    /\ UNCHANGED <<modeVars, storeVars, settingVars, nCalls, syncs, lastInit, sessVars>>

\* db.getByIndex(store, indexName, value)
DbGetByIndexCall(store, value) == DbRead("getByIndex", store, [NoData EXCEPT !.val = value])

\* index.getAll(value) runs
DbGetByIndexRun(i) ==
    /\ calls[i].op = "getByIndex"
    /\ DbAnswer(i, LocalGetByIndex(calls[i].store, calls[i].data.val))

StoreNext ==
    \/ \E localOk \in BOOLEAN : DatabaseInit(localOk, "importFail")
    \/ \E s \in Stores, k \in Keys, x \in Vals \cup {None} :
          DbAddCall(s, [id |-> k, cloudId |-> None, val |-> x, createdAt |-> None])
    \/ \E i \in DOMAIN calls : DbAddRun(i)
    \/ \E s \in Stores, k \in Keys \ {None} : DbDeleteCall(s, k)
    \/ \E i \in DOMAIN calls : DbDeleteRun(i)
    \/ \E s \in Stores, x \in Vals \cup {None} : DbGetByIndexCall(s, x)
    \/ \E i \in DOMAIN calls : DbGetByIndexRun(i)

StoreSpec == Init /\ [][StoreNext]_vars

(***************************************************************************)
(* DbSpec: the whole call surface of Local Store on a page that is loaded  *)
(* over a database earlier runs have filled.  The application goes on when *)
(* init() has not completed within its timeout, so every call can be made  *)
(* before init() completes (or after it failed) as well as after.  A       *)
(* caller awaits each call before it makes the next.                       *)
(***************************************************************************)
\* the records earlier runs have left in the database
StoredRecs ==
    [s \in AllStores |->
        IF s = "users"
        THEN {[id |-> 1, cloudId |-> None, val |-> 1, createdAt |-> Now],
              [id |-> 2, cloudId |-> None, val |-> 2, createdAt |-> Now]}
        ELSE IF s = "workouts"
        THEN {[id |-> 1, cloudId |-> None, val |-> 1, createdAt |-> Now]}
        ELSE {}]

\* the state after construction, over the database of earlier runs: the
\* key generators stand past the stored keys and a user is logged in
DbInit ==
    /\ useCloud = TRUE
    /\ useFirebase = FALSE
    /\ firebaseModule = FALSE
    /\ fbDb = FALSE
    /\ localReady = FALSE
    /\ local = StoredRecs
    /\ nextId = [s \in AllStores |-> Cardinality(StoredRecs[s]) + 1]
    /\ remote = [s \in AllStores |-> {}]
    /\ nextCloud = 0
    /\ localSetting = 1
    /\ remoteSetting = NoSetting
    /\ calls = <<>>
    /\ nCalls = 0
    /\ syncs = <<>>
    /\ lastInit = "none"
    /\ workoutSession = NoSession
    /\ currentWorkout = None
    /\ currentExerciseIndex = 0
    /\ history = {}
    /\ historyNext = 1
    /\ finishes = <<>>
    /\ nSessions = 0
    /\ navResult = NoExercise
    /\ AppInit

\* every call made so far has resolved or rejected
Settled == \A i \in DOMAIN calls : calls[i].pc # "queued"

\* db.update(store, data)
DbUpdateCall(store, data) == DbCall("update", store, data)

\* store.put(...) runs
DbUpdateRun(i) ==
    /\ calls[i].op = "update"
    /\ Runnable(i)
    /\ DbSettle(i, LocalUpdate(calls[i].store, calls[i].data))

\* db.clear(store)
DbClearCall(store) == DbCall("clear", store, NoData)

\* store.clear() runs
DbClearRun(i) ==
    /\ calls[i].op = "clear"
    /\ Runnable(i)
    /\ DbSettle(i, LocalClear(calls[i].store))

\* db.get(store, id)
DbGetCall(store, id) == DbRead("get", store, [NoData EXCEPT !.id = id])

\* store.get(id) runs
DbGetRun(i) ==
    /\ calls[i].op = "get"
    /\ DbAnswer(i, LocalGet(calls[i].store, calls[i].data.id))

\* db.getAll(store)
DbGetAllCall(store) == DbRead("getAll", store, NoData)

\* store.getAll() runs
DbGetAllRun(i) ==
    /\ calls[i].op = "getAll"
    /\ DbAnswer(i, LocalGetAll(calls[i].store))

\* db.getSetting(key): this.get('settings', key)
DbGetSettingCall == DbRead("getSetting", "settings", NoData)

\* the get of getSetting has run: result?.value
DbGetSettingRun(i) ==
    /\ calls[i].op = "getSetting"
    /\ Runnable(i)
    /\ calls' = [calls EXCEPT ![i] = [calls[i] EXCEPT !.pc = "done", !.ret = LocalGetSetting]]
    /\ UNCHANGED <<modeVars, storeVars, settingVars, nCalls, syncs, lastInit, sessVars>>

\* db.setSetting(key, value): this.update('settings', { key, value })
DbSetSettingCall(value) == DbCall("setSetting", "settings", [NoData EXCEPT !.val = value])

\* the put of setSetting has run
DbSetSettingRun(i) ==
    /\ calls[i].op = "setSetting"
    /\ Runnable(i)
    /\ localSetting' = calls[i].data.val
    /\ calls' = [calls EXCEPT ![i] = [calls[i] EXCEPT !.pc = "done"]]
    /\ UNCHANGED <<modeVars, storeVars, remoteSetting, nCalls, syncs, lastInit, sessVars>>

DbNext ==
    \/ \E localOk \in BOOLEAN : DatabaseInit(localOk, "importFail")
    \/ Settled /\ \E s \in Stores, x \in Vals :
          DbAddCall(s, [id |-> None, cloudId |-> None, val |-> x, createdAt |-> None])
    \/ \E i \in DOMAIN calls : DbAddRun(i)
    \/ Settled /\ \E s \in Stores, x \in Vals :
          \E r \in StoredRecs[s] : DbUpdateCall(s, [r EXCEPT !.val = x])
    \/ \E i \in DOMAIN calls : DbUpdateRun(i)
    \/ Settled /\ \E s \in Stores, k \in Keys \ {None} : DbDeleteCall(s, k)
    \/ \E i \in DOMAIN calls : DbDeleteRun(i)
    \/ Settled /\ \E s \in Stores : DbClearCall(s)
    \/ \E i \in DOMAIN calls : DbClearRun(i)
    \/ Settled /\ \E s \in Stores, k \in Keys \ {None} : DbGetCall(s, k)
    \/ \E i \in DOMAIN calls : DbGetRun(i)
    \/ Settled /\ \E s \in Stores : DbGetAllCall(s)
    \/ \E i \in DOMAIN calls : DbGetAllRun(i)
    \/ Settled /\ \E s \in Stores, x \in Vals : DbGetByIndexCall(s, x)
    \/ \E i \in DOMAIN calls : DbGetByIndexRun(i)
    \/ Settled /\ DbGetSettingCall
    \/ \E i \in DOMAIN calls : DbGetSettingRun(i)
    \/ Settled /\ \E v \in SettingVals : DbSetSettingCall(v)
    \/ \E i \in DOMAIN calls : DbSetSettingRun(i)

DbSpec == DbInit /\ [][DbNext]_vars

(***************************************************************************)
(* StreakSpec: check-ins are recorded as the days pass, and the streak is  *)
(* asked for on any day.                                                   *)
(***************************************************************************)
StreakNext ==
    \/ RecordCheckin
    \/ NextDay
    \/ \E zone \in Zones : GetStreak(zone)

StreakSpec == Init /\ [][StreakNext]_vars

(***************************************************************************)
(* SeedSpec: page loads.  On each load database.init() is started and      *)
(* seedDatabase runs once, after init() has settled or while it is still   *)
(* pending (init() is raced against a timer); the page is loaded again     *)
(* after the run has returned.                                             *)
(***************************************************************************)
SeedNext ==
    \/ lastInit = "none" /\ \E localOk \in BOOLEAN, hs \in Handshakes : DatabaseInit(localOk, hs)
    \/ \E netOk \in BOOLEAN : SeedStart(netOk)
    \/ \E data \in Catalogs, ok \in BOOLEAN : SeedFetch(data, ok)
    \/ \E netOk \in BOOLEAN : SeedAdd(netOk)
    \/ SeedMirror
    \/ seed.pc = "done" /\ Crash

SeedSpec == Init /\ [][SeedNext]_vars

(***************************************************************************)
(* RouterSpec: hashchange events start handleRoute invocations, which run  *)
(* interleaved at their awaits.  The hash names a registered path or       *)
(* another one; a before hook resolves to true, false or undefined.        *)
(***************************************************************************)
RouterNext ==
    \/ \E path \in DOMAIN Routes \cup {"nowhere"} : HandleRoute(path)
    \/ \E r \in DOMAIN nav, result \in {"true", "false", "undefined"} :
          BeforeHook(r, result)
    \/ \E r \in DOMAIN nav : Resume(r)

RouterSpec == Init /\ [][RouterNext]_vars

(***************************************************************************)
(* LoggerSpec: logger calls, changes of the hostname, and page loads       *)
(* (which load the logger module again).                                   *)
(***************************************************************************)
LoggerNext ==
    \/ \E level \in {"log", "info", "warn", "error"} : LoggerCall(level)
    \/ \E host \in {"localhost", "127.0.0.1", "gymflow.app"} : SetHostname(host)
    \/ Crash

LoggerSpec == Init /\ [][LoggerNext]_vars

(***************************************************************************)
(* AuthSpec: page loads of a browser that holds the data of earlier        *)
(* visits.  Each load runs database.init() and then loadSettings; users    *)
(* log in (as one of the users the adapter shows) and out; the page is     *)
(* loaded again.                                                           *)
(***************************************************************************)
AuthNext ==
    \/ lastInit = "none" /\ \E localOk \in BOOLEAN, hs \in Handshakes : DatabaseInit(localOk, hs)
    \/ lastInit # "none" /\ \E netOk, localOk \in BOOLEAN, hs \in Handshakes :
          LoadSettings(netOk, localOk, hs)
    \/ auth.loaded /\ \E netOk, localOk \in BOOLEAN, hs \in Handshakes :
          \E u \in (IF getDB = "remote" THEN RemoteGetAll("users") ELSE LocalGetAll("users")) :
              Login(u.id, netOk, localOk, hs)
    \/ \E netOk \in BOOLEAN : Logout(netOk)
    \/ Crash

AuthSpec == DbInit /\ [][AuthNext]_vars

(***************************************************************************)
(* Properties.                                                             *)
(***************************************************************************)
\* the call issued by this step
Newest == calls'[Len(calls')]

\* this step issues a call
Issuing == nCalls' = nCalls + 1

\* this step is the first write of an add, update or delete that getDB()
\* routed to Remote Store, and that write failed
FailedRemoteWrite ==
    /\ getDB = "remote"
    /\ \/ \E s \in Stores, x \in Vals, netOk \in BOOLEAN :
             /\ RemoteAdd(s, [id |-> None, cloudId |-> None, val |-> x,
                               createdAt |-> None], netOk).status = "error"
             /\ AddBegin(s, x, netOk)
       \/ \E s \in Stores, netOk \in BOOLEAN : \E r \in Held(s), x \in Vals :
             /\ RemoteUpdate(s, [r EXCEPT !.val = x], netOk).status = "error"
             /\ UpdateBegin(s, [r EXCEPT !.val = x], netOk)
       \/ \E s \in Stores, netOk \in BOOLEAN : \E id \in HeldIds(s) :
             /\ RemoteDelete(s, id, netOk).status = "error"
             /\ DeleteBegin(s, id, netOk)

\* C1: in cloud mode, when the Remote Store write of add, update or delete
\* fails, the call rejects and Local Store (records and key generators) is
\* exactly what it was; a rejected call takes no further step, so it never
\* writes Local Store afterwards either.
C1_RemoteFailureRejects ==
    [][/\ FailedRemoteWrite =>
             /\ Newest.pc = "rejected"
             /\ Newest.route = "remote"
             /\ UNCHANGED <<local, nextId>>
       /\ ~Issuing =>
             \A i \in DOMAIN calls : calls[i].pc = "rejected" => calls'[i] = calls[i]]_vars

\* C1 witness: a cloud-mode write call was rejected by Remote Store while
\* Local Store holds records of that store
C1_Witness ==
    \E i \in DOMAIN calls :
        /\ calls[i].op \in WriteOps
        /\ calls[i].route = "remote"
        /\ calls[i].pc = "rejected"
        /\ calls[i].err = "first"
        /\ local[calls[i].store] # {}

\* C2 (as claimed): an add or update whose Remote Store write succeeded
\* resolves even when the Local Store mirror write fails, so no such call is
\* ever rejected at its mirror step.
C2_MirrorFailureSwallowed ==
    \A i \in DOMAIN calls :
        (calls[i].op \in {"add", "update"} /\ calls[i].route = "remote"
            /\ calls[i].pc = "rejected")
        => calls[i].err = "first"

\* C3 (as claimed): when the handshake of enableCloud() fails, enableCloud
\* returns without throwing, isCloudEnabled() is false afterwards and the
\* next call is served by Local Store.
C3_FailedHandshakeStaysLocal ==
    [][\A hs \in Handshakes \ {"ok"} :
          EnableCloud(TRUE, hs) =>
              (lastInit' # "threw" /\ ~useFirebase' /\ getDB' = "local")]_vars

\* C4: a Local Store record never carries a document id as cloudId before
\* Remote Store has created that document, and a dual write (a call whose
\* first write went to Remote Store) is at its mirror step or past it only
\* when its Remote Store write succeeded: the id an add mirrors is the id of
\* a created document.
C4_MirrorAfterRemote ==
    /\ \A s \in Stores : \A r \in local[s] :
          IsCloudId(r.cloudId) => r.cloudId < CloudIdBase + nextCloud
    /\ \A i \in DOMAIN calls :
          (calls[i].route = "remote" /\ calls[i].op \in WriteOps
              /\ (calls[i].pc = "await" \/ calls[i].mirrored))
          => /\ calls[i].err = "none"
             /\ calls[i].op = "add" =>
                   (IsCloudId(calls[i].ret) /\ calls[i].ret < CloudIdBase + nextCloud)

\* C4 witness: a cloud-mode add is suspended between its two writes: the
\* document exists and no Local Store record carries its id yet
C4_Witness ==
    \E i \in DOMAIN calls :
        /\ calls[i].op = "add"
        /\ calls[i].route = "remote"
        /\ calls[i].pc = "await"
        /\ \E d \in remote[calls[i].store] : d.docId = calls[i].ret
        /\ \A r \in local[calls[i].store] : r.cloudId # calls[i].ret

\* the Local Store records of a store that stand for the Remote Store
\* entity k: the record that mirrors it (cloudId = k) and a record keyed k
Mirrors(recs, k) == {r \in recs : r.cloudId = k \/ r.id = k}

\* this step is the mirror step of call i, which resolves after mirroring a
\* write that went to Remote Store
MirrorsRemote(i) ==
    /\ ~Issuing
    /\ calls[i].pc = "await"
    /\ calls[i].route = "remote"
    /\ calls'[i].pc = "done"
    /\ calls'[i].mirrored

\* C6 (as claimed): the mirror step of a cloud-mode update leaves exactly
\* one Local Store record for the entity, holding the updated fields, and
\* the mirror step of a cloud-mode delete leaves none.
C6_MirrorHitsSameEntity ==
    [][\A i \in DOMAIN calls : MirrorsRemote(i) =>
          LET c == calls[i]
              ent == Mirrors(local'[c.store], c.data.id)
          IN /\ c.op = "update" =>
                   (Cardinality(ent) = 1 /\ \A r \in ent : r.val = c.data.val)
             /\ c.op = "delete" => ent = {}]_vars

\* C7: in cloud mode a successful add(c, x) creates exactly one Remote Store
\* document, holding x, under a fresh cloud id k that the call returns, and
\* its mirror step creates exactly one Local Store record in c, holding x
\* with cloudId = k, and changes nothing else in Local Store.
C7_CloudAddMirrorsOnce ==
    [][/\ (Issuing /\ Newest.op = "add" /\ Newest.route = "remote" /\ Newest.pc = "await") =>
             LET c == Newest
                 k == c.ret
             IN /\ IsCloudId(k)
                /\ \A s \in Stores : \A d \in remote[s] : d.docId # k
                /\ remote' = [remote EXCEPT ![c.store] = remote[c.store] \cup
                      {[docId |-> k, id |-> None, cloudId |-> None, val |-> c.data.val,
                        createdAt |-> Now]}]
                /\ UNCHANGED local
       /\ \A i \in DOMAIN calls : (MirrorsRemote(i) /\ calls[i].op = "add") =>
             LET c == calls[i]
                 new == local'[c.store] \ local[c.store]
             IN /\ calls'[i].ret = c.ret
                /\ Cardinality(new) = 1
                /\ \A r \in new : r.cloudId = c.ret /\ r.val = c.data.val
                /\ Cardinality({r \in local'[c.store] : r.cloudId = c.ret}) = 1
                /\ local[c.store] \subseteq local'[c.store]
                /\ \A s \in Stores \ {c.store} : local'[s] = local[s]
                /\ UNCHANGED remote]_vars

\* C7 witness: a cloud-mode add has resolved with id k; document k and the
\* one Local Store record with cloudId = k both hold its payload
C7_Witness ==
    \E i \in DOMAIN calls :
        /\ calls[i].op = "add"
        /\ calls[i].route = "remote"
        /\ calls[i].pc = "done"
        /\ calls[i].mirrored
        /\ \E d \in remote[calls[i].store] :
              d.docId = calls[i].ret /\ d.val = calls[i].data.val
        /\ \E r \in local[calls[i].store] :
              r.cloudId = calls[i].ret /\ r.val = calls[i].data.val

\* what Local Store alone answers to a one-stretch call
LocalAnswer(c) ==
    CASE c.op = "get" -> c.rows = LocalGet(c.store, c.data.id)
      [] c.op = "getAll" -> c.rows = LocalGetAll(c.store)
      [] c.op = "getByIndex" -> c.rows = LocalGetByIndex(c.store, c.data.val)
      [] c.op = "getSetting" -> c.ret = LocalGetSetting
      [] c.op = "setSetting" -> localSetting' = (IF localReady THEN c.data.val ELSE localSetting)
      [] c.op = "add" -> local'[c.store] = LocalAdd(c.store, c.data).recs
      [] c.op = "update" -> local'[c.store] = LocalUpdate(c.store, c.data).recs
      [] c.op = "delete" -> local'[c.store] = LocalDelete(c.store, c.data.id).recs

\* C8: while cloud mode is disabled every step of an adapter operation
\* leaves Remote Store (documents, id counter, settings) unchanged, and a
\* call issued then is routed to Local Store and gets Local Store's answer.
C8_LocalModeIsLocalOnly ==
    [][~useFirebase =>
          /\ UNCHANGED <<remote, nextCloud, remoteSetting>>
          /\ Issuing => (Newest.route = "local" /\ LocalAnswer(Newest))]_vars

\* C8 witness: cloud mode is off after it had been on, the two stores
\* differ, and a read was answered from Local Store
C8_Witness ==
    /\ ~useFirebase
    /\ firebaseModule
    /\ \E i \in DOMAIN calls :
          /\ calls[i].op = "getAll"
          /\ calls[i].route = "local"
          /\ calls[i].pc = "done"
          /\ calls[i].rows = local[calls[i].store]
          /\ calls[i].rows # RemoteGetAll(calls[i].store)

\* the logical record a Remote Store document stands for: the id field
\* stored in it (the key of the Local Store record it was uploaded from, or
\* its own id after an update), else its document id
Origin(d) == IF d.id # None THEN d.id ELSE d.docId

\* C5 (as claimed): under non-overlapping operation Remote Store never
\* holds two documents of one collection that stand for the same logical
\* record.
C5_NoDuplicateUpload ==
    \A s \in Stores : \A d1, d2 \in remote[s] :
        Origin(d1) = Origin(d2) => d1 = d2

\* the pass ran its loop to the end and no store threw
CleanPass(p) == p.pc = "done" /\ p.errs = {}

\* no operation was started after this pass
Latest(p) == p.seq = nCalls + Len(syncs)

\* C9: a syncToCloud pass that ends without a failure has uploaded each
\* record that lacked a cloudId exactly once (as many uploads as there were
\* unsynced records) and leaves every Local Store record with a cloudId; a
\* pass run directly after such a pass uploads nothing.
C9_SyncTwiceUploadsOnce ==
    \A j \in DOMAIN syncs :
        CleanPass(syncs[j]) =>
            /\ syncs[j].ret = TRUE
            /\ syncs[j].ups = syncs[j].pending
            /\ Latest(syncs[j]) => \A s \in Stores : \A r \in local[s] : r.cloudId # None
            /\ (j > 1 /\ CleanPass(syncs[j - 1]) /\ syncs[j].seq = syncs[j - 1].seq + 1)
                  => syncs[j].ups = 0

\* C9 witness: two passes in succession, both without failure: the first
\* uploaded records, the second none
C9_Witness ==
    \E j \in DOMAIN syncs :
        /\ j > 1
        /\ CleanPass(syncs[j - 1])
        /\ CleanPass(syncs[j])
        /\ syncs[j].seq = syncs[j - 1].seq + 1
        /\ syncs[j - 1].ups > 0
        /\ syncs[j].ups = 0

\* C10: a syncToCloud pass never rejects; once in the loop it ends by
\* returning true whatever stores threw, and every store that did not throw
\* was reconciled: none of its records is left without a cloudId.
C10_SyncSurvivesStoreFailure ==
    \A j \in DOMAIN syncs :
        /\ syncs[j].pc \in {"unavailable", "getAll", "upload", "rewrite", "done"}
        /\ syncs[j].pc = "done" =>
              /\ syncs[j].ret = TRUE
              /\ Latest(syncs[j]) =>
                    \A s \in Stores \ syncs[j].errs : \A r \in local[s] : r.cloudId # None

\* C10 witness: a pass returned true although reconciling "users" threw,
\* and it uploaded the records of "workouts", the store after it
C10_Witness ==
    \E j \in DOMAIN syncs :
        /\ syncs[j].pc = "done"
        /\ syncs[j].ret = TRUE
        /\ syncs[j].errs = {"users"}
        /\ syncs[j].ups > 0
        /\ \E r \in local["users"] : r.cloudId = None
        /\ local["workouts"] # {}
        /\ \A r \in local["workouts"] : IsCloudId(r.cloudId)

\* cloud sync is enabled and Remote Store is reachable
CloudUp == useFirebase /\ firebaseModule /\ fbDb

\* every Local Store record carries a cloudId
AllSynced == \A s \in Stores : \A r \in local[s] : r.cloudId # None

\* C11: when cloud sync is enabled and stays enabled, then, with passes
\* that keep being run and uploads that eventually succeed, again and again
\* every Local Store record carries a cloudId: a record created without one
\* is not left without one for ever.
C11_EventuallyCloudId ==
    (<>[]CloudUp) => ([]<>AllSynced)

\* C11 witness: cloud sync is enabled, a record that was created in local
\* mode now carries a cloudId, and a pass has uploaded it
C11_Witness ==
    /\ CloudUp
    /\ \E s \in Stores : \E r \in local[s] : ~IsCloudId(r.id) /\ IsCloudId(r.cloudId)
    /\ \E j \in DOMAIN syncs : syncs[j].pc = "done" /\ syncs[j].ups > 0
    /\ AllSynced

\* C12: an upload step of a pass consults neither Remote Store nor the other
\* passes: whenever Remote Store accepts it, it creates one more document
\* from the item of the pass's own snapshot, also when a document uploaded
\* from the same Local Store record is already there; so two overlapping
\* passes that both read the record before either rewrote it leave two
\* documents for it.
C12_ConcurrentSyncDuplicates ==
    [][\A j \in DOMAIN syncs :
          (syncs[j].pc = "upload" /\ syncs'[j].pc = "rewrite") =>
              LET store == StoreOrder[syncs[j].idx]
                  item == Head(syncs[j].items)
                  k == syncs'[j].cloudId
              IN /\ \A d \in remote[store] : d.docId # k
                 /\ remote'[store] = remote[store] \cup
                       {[docId |-> k, id |-> item.id, cloudId |-> item.cloudId,
                         val |-> item.val, createdAt |-> Now]}
                 /\ syncs'[j].ups = syncs[j].ups + 1]_vars

\* C12 witness: two passes have both uploaded the one Local Store record of
\* a store: Remote Store holds two documents uploaded from it
C12_Witness ==
    \E s \in Stores : \E r \in local[s] :
        /\ Cardinality(local[s]) = 1
        /\ Cardinality({d \in remote[s] : d.id = r.id}) = 2
        /\ Len(syncs) = 2
        /\ \A j \in DOMAIN syncs : syncs[j].ups = 1

\* C13: when the process stopped after a pass had uploaded a record and
\* before it rewrote the local copy, the uploaded document stays in Remote
\* Store, no Local Store record carries its id (the record still lacks a
\* cloudId until a later pass gives it another one), and every later pass
\* that runs to its end without a failure has uploaded the record again:
\* Remote Store then holds at least two documents uploaded from it.
C13_CrashBeforeRewriteDuplicates ==
    \A j \in DOMAIN syncs :
        syncs[j].pc = "lostRewrite" =>
            LET s == StoreOrder[syncs[j].idx]
                r == Head(syncs[j].items)
                k == syncs[j].cloudId
            IN /\ \E d \in remote[s] : d.docId = k /\ d.id = r.id
               /\ \E o \in local[s] : o.id = r.id
               /\ \A o \in local[s] : o.cloudId # k
               /\ j = Len(syncs) => r \in local[s]
               /\ \A j2 \in DOMAIN syncs :
                     (j2 > j /\ CleanPass(syncs[j2])) =>
                         /\ Cardinality({d \in remote[s] : d.id = r.id}) >= 2
                         /\ \E o \in local[s] : o.id = r.id /\ IsCloudId(o.cloudId)

\* C13 witness: a pass was cut off between upload and rewrite, the next pass
\* ran to its end, and Remote Store holds two documents for the one record
C13_Witness ==
    \E j \in DOMAIN syncs :
        /\ syncs[j].pc = "lostRewrite"
        /\ j + 1 \in DOMAIN syncs
        /\ CleanPass(syncs[j + 1])
        /\ syncs[j + 1].ups > 0
        /\ Cardinality({d \in remote[StoreOrder[syncs[j].idx]] :
                           d.id = Head(syncs[j].items).id}) = 2

\* this step is finishSession i coming back from its await of db.add
Finishing(i) == finishes[i].pc = "await" /\ finishes'[i].pc = "done"

ReachedTarget(ex) == Len(ex.logsPerSet) >= ex.sets

\* C15: isWorkoutComplete() is true exactly when a session is active and
\* every exercise of it has reached its target set count or was skipped; it
\* is false while some exercise is neither, and false without a session.
C15_CompleteIffAllDone ==
    isWorkoutComplete <=>
        /\ workoutSession.live
        /\ \A i \in DOMAIN workoutSession.exercises :
              ReachedTarget(workoutSession.exercises[i])
                  \/ workoutSession.exercises[i].skipped

\* C15 witness: a session of two exercises is complete, one exercise by its
\* logged sets and the other by being skipped
C15_Witness ==
    /\ isWorkoutComplete
    /\ Len(workoutSession.exercises) = 2
    /\ \E i, j \in DOMAIN workoutSession.exercises :
          /\ workoutSession.exercises[i].completed
          /\ ~workoutSession.exercises[i].skipped
          /\ workoutSession.exercises[j].skipped
          /\ ~workoutSession.exercises[j].completed

RECURSIVE AllLogs(_)
\* the logged sets of all exercises, one after the other
AllLogs(exs) ==
    IF exs = <<>> THEN <<>> ELSE Head(exs).logsPerSet \o AllLogs(Tail(exs))

RECURSIVE Volume(_)
\* the sum of reps times weight over a list of logged sets
Volume(logs) ==
    IF logs = <<>> THEN 0
    ELSE Plus(Times(Head(logs).reps, Head(logs).weight), Volume(Tail(logs)))

\* the totals stored in a session are those of its logged sets
TotalsMatch(sess) ==
    /\ sess.totalSets = Len(AllLogs(sess.exercises))
    /\ sess.totalVolume = Volume(AllLogs(sess.exercises))

\* C16: finishSession computes totalSets as the number of logged sets of
\* all exercises and totalVolume as the sum of reps times weight over all of
\* them; the History record it writes carries these totals, and so does the
\* object it returns (the session as finishSession was called on it, plus
\* the id of the record, when nothing touched the session meanwhile).
C16_TotalsAreSums ==
    [][/\ (Len(finishes') = Len(finishes) + 1 /\ workoutSession.live) =>
             /\ workoutSession'.exercises = workoutSession.exercises
             /\ TotalsMatch(workoutSession')
             /\ finishes'[Len(finishes')].snap = workoutSession'
       /\ \A i \in DOMAIN finishes : (Finishing(i) /\ history' # history) =>
             /\ \A h \in history' \ history :
                   /\ TotalsMatch(h.session)
                   /\ finishes'[i].ret.id = h.id
                   /\ workoutSession = finishes[i].snap =>
                         finishes'[i].ret.session = h.session
             /\ workoutSession.live => finishes'[i].ret.session.live
             /\ workoutSession = finishes[i].snap =>
                   TotalsMatch(finishes'[i].ret.session)]_vars

\* C16 witness: finishSession returned a session with two logged sets,
\* 2 x 2.5 and 3 x 2.0, as totalSets = 2 and totalVolume = 11.0, and the
\* History record holds the same totals
C16_Witness ==
    \E i \in DOMAIN finishes :
        /\ finishes[i].pc = "done"
        /\ ~finishes[i].ret.isNull
        /\ finishes[i].ret.session.totalSets = 2
        /\ finishes[i].ret.session.totalVolume = 110
        /\ Len(finishes[i].ret.session.exercises) = 2
        /\ \E h \in history :
              /\ h.id = finishes[i].ret.id
              /\ h.session = finishes[i].ret.session

\* C17: a logSet call on an active session appends one entry, whatever its
\* setNumber, to the log of the current exercise and changes no other
\* exercise; setsCompleted is always the length of the log, completed is
\* set exactly from the call that brings the length to the target set
\* count, and it is not reset while the session lasts.
C17_LogSetAppends ==
    [][/\ \A in \in SetInputs : LogSet(in.setNumber, in.reps, in.weight) =>
             LET i == currentExerciseIndex + 1
                 exs == workoutSession.exercises
                 exs2 == workoutSession'.exercises
             IN /\ exs2[i].logsPerSet = Append(exs[i].logsPerSet,
                       [setNumber |-> in.setNumber, reps |-> parseInt(in.reps),
                        weight |-> parseFloat(in.weight)])
                /\ Len(exs2) = Len(exs)
                /\ \A k \in DOMAIN exs : k # i => exs2[k] = exs[k]
                /\ exs2[i].sets = exs[i].sets /\ exs2[i].skipped = exs[i].skipped
                /\ UNCHANGED currentExerciseIndex
       /\ workoutSession'.live =>
             \A k \in DOMAIN workoutSession'.exercises :
                 LET ex == workoutSession'.exercises[k]
                 IN /\ ex.setsCompleted = Len(ex.logsPerSet)
                    /\ ex.completed <=> ReachedTarget(ex)
       /\ (workoutSession.live /\ workoutSession'.live /\ nSessions' = nSessions) =>
             \A k \in DOMAIN workoutSession.exercises :
                 workoutSession.exercises[k].completed
                     => workoutSession'.exercises[k].completed]_vars

\* C17 witness: an exercise whose target is one set holds two log entries
\* with the same set number and is completed
C17_Witness ==
    /\ workoutSession.live
    /\ \E k \in DOMAIN workoutSession.exercises :
          LET ex == workoutSession.exercises[k]
          IN /\ ex.sets = 1
             /\ Len(ex.logsPerSet) = 2
             /\ ex.logsPerSet[1].setNumber = ex.logsPerSet[2].setNumber
             /\ ex.setsCompleted = 2
             /\ ex.completed

\* the index moved forward by one and the new current exercise was
\* returned, or it was at the last exercise (or no session is active) and
\* null was returned
SteppedForward ==
    IF workoutSession.live /\ currentExerciseIndex # Len(workoutSession.exercises) - 1
    THEN currentExerciseIndex' = currentExerciseIndex + 1 /\ navResult' = currentExerciseIndex'
    ELSE currentExerciseIndex' = currentExerciseIndex /\ navResult' = NoExercise

\* C18: while a session of n exercises is active the current exercise
\* index is within 0..n-1; nextExercise and skipExercise at index n-1 and
\* previousExercise at index 0 return null and leave the index, anywhere
\* else they move it by exactly one and return the new current exercise.
C18_IndexStaysInRange ==
    [][/\ workoutSession'.live =>
             currentExerciseIndex' \in 0..(Len(workoutSession'.exercises) - 1)
       /\ NextExercise => SteppedForward
       /\ SkipExercise => SteppedForward
       /\ PreviousExercise =>
             IF workoutSession.live /\ currentExerciseIndex # 0
             THEN /\ currentExerciseIndex' = currentExerciseIndex - 1
                  /\ navResult' = currentExerciseIndex'
             ELSE /\ currentExerciseIndex' = currentExerciseIndex
                  /\ navResult' = NoExercise]_vars

\* C18 witness: in a session of two exercises the index is at the last
\* exercise and a step forward has just returned null
C18_Witness ==
    /\ workoutSession.live
    /\ Len(workoutSession.exercises) = 2
    /\ currentExerciseIndex = 1
    /\ navResult = NoExercise

\* the call that settled last, before the one issued by this step
Previous == calls[Len(calls)]

\* C20 (as claimed): when add(c, x) has resolved with id i and the next
\* call is get(c, i), so that no update or delete of i lies between them,
\* the get, if it resolves, returns one record: it has id i, the fields of
\* x and a createdAt stamped by the store.
C20_ReadYourWrite ==
    [][(/\ Issuing
        /\ calls # <<>>
        /\ Newest.op = "get"
        /\ Newest.pc = "done"
        /\ Previous.op = "add"
        /\ Previous.pc = "done"
        /\ Previous.ret # None
        /\ Previous.store = Newest.store
        /\ Previous.ret = Newest.data.id)
       => /\ Cardinality(Newest.rows) = 1
          /\ \A r \in Newest.rows :
                /\ r.id = Previous.ret
                /\ r.val = Previous.data.val
                /\ r.createdAt = Now]_vars

\* the calls of add that resolved with a key
AddsDone(store) ==
    {i \in DOMAIN calls :
        /\ calls[i].op = "add"
        /\ calls[i].store = store
        /\ calls[i].pc = "done"
        /\ calls[i].ret # None}

\* C19: among the add calls made on one Local Store collection, whether
\* one after the other or while earlier ones were still waiting, no two that
\* succeed return the same id (as long as no delete was issued on the
\* collection, which frees a key for a caller that supplies it again).
C19_AddIdsDistinct ==
    \A s \in Stores :
        (\A j \in DOMAIN calls : ~(calls[j].op = "delete" /\ calls[j].store = s))
        => \A i, j \in AddsDone(s) : i # j => calls[i].ret # calls[j].ret

\* C19 witness: two adds on one collection both succeeded, one under the
\* key 1 its caller supplied and one under the key 2 the generator, moved
\* past the supplied key, produced
C19_Witness ==
    \E s \in Stores :
        /\ Cardinality(AddsDone(s)) = 2
        /\ \E i, j \in AddsDone(s) :
              /\ calls[i].data.id = 1
              /\ calls[i].ret = 1
              /\ calls[j].data.id = None
              /\ calls[j].ret = 2
              /\ calls[i].data.val # calls[j].data.val

\* this step is read call i getting its answer from Local Store
Answered(i) == calls[i].pc = "queued" /\ calls'[i].pc = "done"

\* C21: getByIndex(c, field, v) for a key value v returns exactly the
\* records stored in c, at the time the request runs, whose field is v:
\* every record returned was created by an add with that value, and every
\* record added with that value and not deleted since is returned.  (With
\* getWorkouts(U): exactly the workouts created with userId U.)
C21_GetByIndexExact ==
    [][\A i \in DOMAIN calls :
          (calls[i].op = "getByIndex" /\ Answered(i) /\ calls[i].data.val # None) =>
              LET s == calls[i].store
                  v == calls[i].data.val
                  rows == calls'[i].rows
              IN /\ rows = {r \in local[s] : r.val = v}
                 /\ \A r \in rows : \E j \in AddsDone(s) :
                       calls[j].ret = r.id /\ calls[j].data.val = v
                 /\ \A j \in AddsDone(s) :
                       (/\ calls[j].data.val = v
                        /\ \A d \in DOMAIN calls :
                              ~(calls[d].op = "delete" /\ calls[d].store = s
                                  /\ calls[d].data.id = calls[j].ret))
                       => \E r \in rows : r.id = calls[j].ret]_vars

\* C21 witness: a collection holds two records with different values of
\* the field, and getByIndex has returned the one that holds the value
\* asked for
C21_Witness ==
    \E i \in DOMAIN calls :
        /\ calls[i].op = "getByIndex"
        /\ calls[i].pc = "done"
        /\ calls[i].data.val # None
        /\ Cardinality(local[calls[i].store]) = 2
        /\ Cardinality(calls[i].rows) = 1
        /\ calls[i].rows \subseteq local[calls[i].store]
        /\ \E r \in local[calls[i].store] : r.val \notin {None, calls[i].data.val}

\* this step is the request of call i running in its transaction
Ran(i) == calls[i].pc = "queued" /\ calls'[i].pc # "queued"

\* C22: delete(c, id) resolves, whether or not a record is stored under the
\* id; it removes the record with that id from c and changes nothing else
\* (the other records of c, the other collections, the key generators, the
\* settings); for an id without a record, as on a second delete(c, id), the
\* collection is what it was.
C22_DeleteIdempotent ==
    [][\A i \in DOMAIN calls : (calls[i].op = "delete" /\ Ran(i)) =>
          LET s == calls[i].store
              id == calls[i].data.id
          IN /\ calls'[i].pc = "done"
             /\ \A r \in local'[s] : r.id # id
             /\ \A r \in local[s] : r.id # id => r \in local'[s]
             /\ local'[s] \subseteq local[s]
             /\ \A t \in Stores \ {s} : local'[t] = local[t]
             /\ (\A r \in local[s] : r.id # id) => local' = local
             /\ UNCHANGED <<nextId, localSetting>>]_vars

\* C22 witness: two delete calls for the same id of a collection both ran
\* and resolved; the record is gone and the other record of the collection
\* is still there
C22_Witness ==
    /\ Len(calls) = 2
    /\ \A i \in DOMAIN calls :
          calls[i].op = "delete" /\ calls[i].pc = "done" /\ calls[i].store = "users"
              /\ calls[i].data.id = 1
    /\ local["users"] = {r \in StoredRecs["users"] : r.id # 1}
    /\ local["users"] # {}

\* C23: a Local Store call made while init() has not completed (add, get,
\* getAll, getByIndex, update, delete, clear, getSetting, setSetting)
\* resolves at once, without throwing, with null / undefined or an empty
\* list, and leaves the stored records, the key generators and the settings
\* as they are; having resolved, it takes no later step.
C23_NotReadyIsBenign ==
    [][/\ (Len(calls') = Len(calls) + 1 /\ ~localReady) =>
             LET c == calls'[Len(calls')]
             IN /\ c.pc = "skipped"
                /\ c.err = "none"
                /\ c.ret = None
                /\ c.rows = {}
                /\ UNCHANGED <<local, nextId, localSetting>>
       /\ \A i \in DOMAIN calls : calls[i].pc = "skipped" =>
             (i \in DOMAIN calls' /\ calls'[i] = calls[i])]_vars

\* C23 witness: on a page whose init() has not completed, over a database
\* that holds records and a logged-in user, a delete of a stored record, a
\* setSetting and a getAll were made: all three resolved, the getAll with
\* an empty list, and the database is what it was
C23_Witness ==
    /\ ~localReady
    /\ local = StoredRecs
    /\ localSetting = 1
    /\ \E i, j, k \in DOMAIN calls :
          /\ calls[i].op = "delete" /\ calls[i].store = "users" /\ calls[i].data.id = 1
          /\ calls[j].op = "setSetting" /\ calls[j].data.val = Null
          /\ calls[k].op = "getAll" /\ calls[k].store = "users" /\ calls[k].rows = {}
          /\ \A n \in {i, j, k} : calls[n].pc = "skipped"

\* the most recent of the check-in days
MostRecent(days) == CHOOSE d \in days : \A e \in days : e <= d

\* the streak of the claim: 0 when the most recent check-in day is earlier
\* than yesterday, else the length of the run of consecutive check-in days
\* that ends today when today has a check-in, and yesterday otherwise
ClaimedStreak(days, now) ==
    IF days = {} THEN 0
    ELSE IF MostRecent(days) < now - 1 THEN 0
    ELSE IF now \in days THEN RunEnding(days, now)
    ELSE RunEnding(days, now - 1)

\* C24 (as claimed): whatever the time zone of the browser, getStreak
\* returns 0 when the most recent check-in day is earlier than yesterday and
\* else the length of the run of consecutive check-in days that ends today
\* or yesterday; both implementations of the repository do.
C24_StreakIsRunLength ==
    streak # NoStreak =>
        /\ streak.value = ClaimedStreak(streak.days, streak.day)
        /\ streak.byDates = ClaimedStreak(streak.days, streak.day)

\* C25 (as claimed): seedDatabase inserts catalog entries only when the
\* exercises collection is empty: a step that changes the exercises of
\* Local Store or of Remote Store belongs to a run that found no exercise
\* stored when it started.  (So a run after a seeding leaves the collection
\* as it found it.)  The run never throws: it ends by returning.
C25_SeedIdempotent ==
    [][/\ (local'["exercises"] # local["exercises"]
            \/ remote'["exercises"] # remote["exercises"]) => seed.wasEmpty
       /\ seed'.pc \in {"idle", "fetch", "add", "mirror", "done"}]_vars

\* the place of a callback in the claimed order
Rank(name) ==
    CASE name = "before" -> 1 [] name = "onLeave" -> 2 [] name = "onEnter" -> 3
      [] name = "render" -> 4 [] name = "after" -> 5

\* the invocation was stopped by a before hook
Blocked(run) == \E k \in DOMAIN run.trail : run.trail[k] = <<"before", "false">>

\* C26: an invocation one of whose before hooks resolved to false has
\* called nothing but before hooks (no onLeave, onEnter, render or after
\* hook), the false is the last thing in its trail, it has ended, and none
\* of its steps changed currentRoute; any other invocation calls in the
\* order before hooks, previous route's onLeave, onEnter, render, after
\* hooks, and once it has ended it has called all its NumBefore before
\* hooks, the target's onEnter and render where the route has them, and all
\* its NumAfter after hooks.
C26_BeforeHookBlocks ==
    /\ [](\A r \in DOMAIN nav :
            LET run == nav[r]
                t == run.trail
                names == [k \in DOMAIN t |-> t[k][1]]
                count(n) == Cardinality({k \in DOMAIN t : names[k] = n})
            IN /\ Blocked(run) =>
                    /\ run.pc = "done"
                    /\ t[Len(t)] = <<"before", "false">>
                    /\ \A k \in DOMAIN t : names[k] = "before"
                    /\ run.prev = NoRoute
               /\ \A j, k \in DOMAIN t : j < k => Rank(names[j]) <= Rank(names[k])
               /\ (run.pc = "done" /\ ~Blocked(run) /\ run.path \in DOMAIN Routes) =>
                    /\ count("before") = NumBefore
                    /\ count("onLeave") <= 1
                    /\ count("onEnter") = (IF Routes[run.path].onEnter THEN 1 ELSE 0)
                    /\ count("render") = (IF Routes[run.path].render THEN 1 ELSE 0)
                    /\ count("after") = NumAfter)
    /\ [][\A r \in DOMAIN nav :
            (nav'[r] # nav[r] /\ Blocked(nav'[r])) => currentRoute' = currentRoute]_vars

\* one invocation was stopped by its second before hook, another one went
\* through to the dashboard route and has ended
C26_Witness ==
    \E r, q \in DOMAIN nav :
        /\ Blocked(nav[r]) /\ Len(nav[r].trail) = 2
        /\ nav[q].pc = "done" /\ ~Blocked(nav[q])
        /\ nav[q].path = "dashboard"
        /\ currentRoute = "dashboard"

\* C27 (as claimed): a logger.log or logger.warn call made while the
\* hostname is a production one (neither localhost nor 127.0.0.1) writes
\* nothing to the console, one made while it is localhost does write, and
\* logger.error writes whatever the hostname.
C27_LoggerByHostnameAtCall ==
    \A k \in DOMAIN console :
        LET c == console[k]
        IN /\ (c.level \in {"log", "warn"} /\ ~IsDevelopment(c.host)) => ~c.out
           /\ (c.level \in {"log", "warn"} /\ c.host = "localhost") => c.out
           /\ c.level = "error" => c.out

\* C28 (as claimed): a Local Store record carries a cloudId only if that
\* value is an id Remote Store returned for an upload (a document id that
\* Remote Store has created), whatever mode switches happen while an add is
\* suspended between its first write and its mirror step; and the mirror
\* step of an add whose first write went to Local Store writes nothing to
\* Local Store.
C28_CloudIdFromRemote ==
    /\ [](\A s \in Stores : \A r \in local[s] :
            r.cloudId \notin {None, Undefined} =>
                (IsCloudId(r.cloudId) /\ r.cloudId < CloudIdBase + nextCloud))
    /\ [][\A i \in DOMAIN calls :
            (/\ i \in DOMAIN calls'
             /\ calls[i].op = "add" /\ calls[i].route = "local"
             /\ calls[i].pc = "await" /\ calls'[i].pc # "await")
            => local' = local]_vars

\* C29 (as claimed): the History store holds at most one record per session
\* started, however many finishSession invocations overlap, and every
\* finishSession that returned a result returned a session with its fields
\* (not the fields of a session that was cleared meanwhile).
C29_OneHistoryPerSession ==
    /\ Cardinality(history) <= nSessions
    /\ \A i \in DOMAIN finishes :
          (finishes[i].pc = "done" /\ finishes[i].ret # NoResult) =>
              finishes[i].ret.session.live

\* C30 (as claimed): once a logout has written currentUserId = null (and no
\* login has written it since), no later loadSettings sets state.user,
\* whatever backend the adapter used for the write and uses for the read.
C30_LogoutSticks == auth.restored => ~auth.cleared

====
